------------------------------ MODULE MCShifts ------------------------------
EXTENDS Shifts

\* Days of two slots; the owner's midnight is one slot after the clock's.
MCDateOf == [t \in Instants |-> (t + 1) \div 2]

Make(s, e, b, t, n) == [start |-> s, end |-> e, brk |-> b, type |-> t, notes |-> n]

MCCreates == {Make(0, 3, 1, "day", "text"), Make(4, 5, 0, "night", "null"), Make(3, 2, 0, "day", "null")}
MCPatches == {Make(2, Keep, Keep, Keep, "null"), Make(Keep, 2, 0, Keep, Keep)}
MCRateRows ==
    {[from |-> 0, to |-> 1, cents |-> 3], [from |-> 2, to |-> NoEnd, cents |-> 5]}
MCRanges == {[from |-> 0, to |-> 1], [from |-> 0, to |-> 3]}

\* Neither the requests nor the ids have an order.
MCSymmetry == Permutations(Writers) \cup Permutations(Ids)
=============================================================================

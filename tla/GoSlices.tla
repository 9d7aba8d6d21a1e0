------------------------------ MODULE GoSlices ------------------------------
(***************************************************************************)
(* Go's slices.  A heap is a sequence of arrays, whose lengths are their   *)
(* capacities; a slice is an array of the heap and a length, and what it   *)
(* holds is the first elements of its array.  Slices of one array share    *)
(* what is written to it.                                                  *)
(***************************************************************************)
EXTENDS Naturals, Sequences

Nil == [array |-> 0, len |-> 0]

Elements(heap, slice) == [i \in 1 .. slice.len |-> heap[slice.array][i]]

Capacity(heap, slice) == IF slice.array = 0 THEN 0 ELSE Len(heap[slice.array])

\* An array with xs written to it behind the first len elements.
Overwritten(array, len, xs) ==
    [i \in 1 .. Len(array) |->
        IF i > len /\ i <= len + Len(xs) THEN xs[i - len] ELSE array[i]]

\* append(slice, xs...): in place if the capacity allows it, else in a new
\* array that has spare behind the elements.
AppendTo(heap, slice, xs, spare) ==
    LET len == slice.len + Len(xs) IN
    IF len <= Capacity(heap, slice)
    THEN [heap  |-> IF xs = <<>> THEN heap
                    ELSE [heap EXCEPT ![slice.array] = Overwritten(@, slice.len, xs)],
          slice |-> [slice EXCEPT !.len = len]]
    ELSE [heap  |-> Append(heap, Elements(heap, slice) \o xs \o spare),
          slice |-> [array |-> Len(heap) + 1, len |-> len]]

=============================================================================

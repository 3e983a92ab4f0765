-------------------------------- MODULE Deque --------------------------------
(***************************************************************************)
(* What the list commands promise (readme.md:42-45): a sequence that grows *)
(* and shrinks at both ends, and loses nothing in between.                 *)
(***************************************************************************)
EXTENDS Naturals, Sequences

CONSTANT Pushes     \* what a command may push: sequences of elements

VARIABLE content    \* the list

Init == content = <<>>

PushRight(values) == content' = content \o values
PushLeft(values) == content' = values \o content
PopLeft == content # <<>> /\ content' = Tail(content)
PopRight == content # <<>> /\ content' = SubSeq(content, 1, Len(content) - 1)
Clear == content' = <<>>

Next == \/ \E values \in Pushes : PushRight(values) \/ PushLeft(values)
        \/ PopLeft \/ PopRight \/ Clear

Spec == Init /\ [][Next]_content
=============================================================================

-------------------------- MODULE ImmutableVectors --------------------------
(* What the vectors of the native runtime promise a program: a vector is a  *)
(* value.  Every operation makes a new vector and leaves all the others as  *)
(* they are; a draft (a transient vector) belongs to its holder alone until *)
(* it is frozen, and is of no use afterwards.                              *)
EXTENDS Naturals, Sequences

CONSTANT Element

VARIABLES
  vectors,  \* every vector made so far, as the sequence it holds
  drafts    \* every draft: its sequence, and whether it has been frozen

Init == vectors = <<<<>>>> /\ drafts = <<>>

Make(s) == vectors' = Append(vectors, s) /\ UNCHANGED drafts

Assoc(v, i, x) == i \in 1..Len(vectors[v]) /\ Make([vectors[v] EXCEPT ![i] = x])
Push(v, x) == Make(Append(vectors[v], x))
Concat(v, w) == Make(vectors[v] \o vectors[w])
Slice(v, from, to) ==
  from <= to /\ to <= Len(vectors[v]) /\ Make(SubSeq(vectors[v], from + 1, to))
Reverse(v) ==
  Make([i \in 1..Len(vectors[v]) |-> vectors[v][Len(vectors[v]) + 1 - i]])

Open(v) ==
  /\ drafts' = Append(drafts, [items |-> vectors[v], frozen |-> FALSE])
  /\ UNCHANGED vectors
Extend(d, x) ==
  /\ ~drafts[d].frozen
  /\ drafts' = [drafts EXCEPT ![d].items = Append(@, x)]
  /\ UNCHANGED vectors
Freeze(d) ==
  /\ ~drafts[d].frozen
  /\ drafts' = [drafts EXCEPT ![d].frozen = TRUE]
  /\ vectors' = Append(vectors, drafts[d].items)

Next ==
  \/ \E v \in DOMAIN vectors :
       \/ \E x \in Element : Push(v, x) \/ \E i \in 1..Len(vectors[v]) : Assoc(v, i, x)
       \/ \E w \in DOMAIN vectors : Concat(v, w)
       \/ \E from, to \in 0..Len(vectors[v]) : Slice(v, from, to)
       \/ Reverse(v)
       \/ Open(v)
  \/ \E d \in DOMAIN drafts : Freeze(d) \/ \E x \in Element : Extend(d, x)

Spec == Init /\ [][Next]_<<vectors, drafts>>
=============================================================================

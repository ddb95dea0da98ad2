------------------------------- MODULE Board -------------------------------
(***************************************************************************)
(* What the events of a clan and their comments promise the members, with   *)
(* no requests and no checks: a board of posts and replies with pictures.   *)
(* A post keeps its author and its place, is taken down at most once and is *)
(* never put up again; a reply stays as it was written, under a post that   *)
(* was there; and every picture shown was once shared.                      *)
(***************************************************************************)
EXTENDS Naturals, Sequences

CONSTANTS
  Author,      \* who may post and reply
  Picture      \* what may be shown

VARIABLES
  posts,       \* [author, state, pictures], in the order they were posted
  replies,     \* [to, by, pictures], in the order they were written
  shared       \* pictures ever shared

boardVars == <<posts, replies, shared>>

Init ==
  /\ posts = <<>>
  /\ replies = <<>>
  /\ shared = {}

Share(f) ==
  /\ shared' = shared \cup {f}
  /\ UNCHANGED <<posts, replies>>

Post(a, P) ==
  /\ posts' = Append(posts, [author |-> a, state |-> "up", pictures |-> P])
  /\ UNCHANGED <<replies, shared>>

\* An edit of a post that has been taken down changes it where nobody sees it.
Edit(p, P) ==
  /\ posts' = [posts EXCEPT ![p].pictures = P]
  /\ UNCHANGED <<replies, shared>>

TakeDown(p) ==
  /\ posts' = [posts EXCEPT ![p].state = "down"]
  /\ UNCHANGED <<replies, shared>>

\* A reply may reach a post that has just been taken down.
Reply(a, p, P) ==
  /\ replies' = Append(replies, [to |-> p, by |-> a, pictures |-> P])
  /\ UNCHANGED <<posts, shared>>

Next ==
  \/ \E f \in Picture : Share(f)
  \/ \E a \in Author, P \in SUBSET shared : Post(a, P)
  \/ \E p \in DOMAIN posts :
       \/ TakeDown(p)
       \/ \E P \in SUBSET shared : Edit(p, P) \/ \E a \in Author : Reply(a, p, P)

Spec == Init /\ [][Next]_boardVars
=============================================================================

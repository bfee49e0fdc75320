------------------------------- MODULE MCRecords -------------------------------
(* Small instances of Records for TLC. *)
EXTENDS Records, TLC

CONSTANTS q1, q2, c1, c2

Still == [edits |-> 0, tags |-> 0, webs |-> 0, crashes |-> 0]
\* The phone against one request; associations, replays and a crash; two
\* requests at once.
Edits == {[Still EXCEPT !.edits = 2, !.webs = 1],
           [Still EXCEPT !.edits = 1, !.tags = 1, !.webs = 1, !.crashes = 1],
           [Still EXCEPT !.edits = 1, !.tags = 2, !.crashes = 1],
           [Still EXCEPT !.webs = 2]}

\* Two tabs of one person.
OnePerson == c1 :> "a" @@ c2 :> "a"
Windows == {[frames |-> 2, events |-> 0], [frames |-> 0, events |-> 1]}

\* Working hours that overlap, longer ones, and hours that are not used.
Overlapping == {[from |-> 0, to |-> 2], [from |-> 1, to |-> 3], [from |-> 5, to |-> 6]}
Longer == {[from |-> 1, to |-> 4], [from |-> 5, to |-> 6]}
Hours == {[business |-> TRUE, windows |-> Overlapping],
          [business |-> FALSE, windows |-> Longer]}

Interchangeable == Permutations({q1, q2})
=============================================================================

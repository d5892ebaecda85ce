----------------------------- MODULE MCSgaCreate ------------------------------
(* Words of three bits: at most seven directories and files, offsets below  *)
(* 64, of which a signed seek reaches 32.  Three letters A, B and C (1 ..   *)
(* 3, in lower case 4 .. 6).  The checksums of the directories are in       *)
(* another order than their names, and two of them have the same one.       *)
EXTENDS SgaCreate

CONSTANTS text, noise, nil, bulk, huge

MCBytes == [c \in Contents |->
  CASE c = text -> <<"t1", "t2", "t3">> [] c = noise -> <<"n1", "n2">> [] c = nil -> <<>>
    [] c = bulk -> [i \in 1 .. 18 |-> "b"] [] c = huge -> [i \in 1 .. 32 |-> "h"]]
MCDeflated == [c \in Contents |->
  CASE c = text -> <<"t">> [] c = noise -> <<"n", "n", "n">> [] c = nil -> <<"e">>
    [] c = bulk -> [i \in 1 .. 19 |-> "b"] [] c = huge -> <<"h">>]
MCOctets == {"t", "t1", "t2", "t3", "n", "n1", "n2", "e", "b", "h"}
MCPaths == {<<>>, <<4>>, <<5>>, <<6>>, <<4, 4>>, <<4, 5>>, <<4, 6>>, <<5, 4>>}
MCCrc == (<<>> :> 3) @@ (<<4>> :> 4) @@ (<<5>> :> 1) @@ (<<4, 6>> :> 2)
         @@ (<<6>> :> 8) @@ (<<4, 4>> :> 5) @@ (<<4, 5>> :> 1) @@ (<<5, 4>> :> 6)

Empty == [n \in {} |-> nil]
Root(files) == <<>> :> files

\* Mixed spelling, every kind of content and directories without files, two of them of the
\* same checksum; no file at all; seven directories, all that three bits can count, and eight.
\* At the limit of a signed seek: an archive that ends at 32, one that ends at 33, one whose
\* last file lies beyond; and a file nobody can measure.
MCTrees == {
  Root((5 :> text) @@ (1 :> noise)) @@ (<<2>> :> Empty) @@ (<<4>> :> Empty) @@ (<<4, 2>> :> (6 :> nil)),
  Root(Empty) @@ (<<1>> :> Empty),
  [p \in MCPaths \ {<<6>>} |-> IF p \in {<<5, 4>>, <<4, 4>>} THEN (4 :> text) ELSE Empty],
  [p \in MCPaths |-> IF p = <<5, 4>> THEN (4 :> text) ELSE Empty],
  Root((1 :> bulk) @@ (5 :> text)),
  Root((1 :> bulk) @@ (5 :> noise)),
  [p \in MCPaths \ {<<5>>, <<4, 5>>, <<5, 4>>} |-> IF p \in {<<4, 6>>, <<6>>} THEN (4 :> bulk) ELSE Empty],
  Root((1 :> huge)) }

MCTasks == (1 .. MaxAttempts) \X (1 .. MaxFiles)
MCOutcomes == Contents \cup {Failed}
=============================================================================

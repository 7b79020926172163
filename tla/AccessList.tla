----------------------------- MODULE AccessList -----------------------------
(***************************************************************************)
(* agent.access, the file that says where the agent may connect: package   *)
(* internal/acl.  A line counts for the addresses its first field covers;  *)
(* blank lines and comments are skipped, and so is a field that is neither *)
(* an address nor a network.                                               *)
(***************************************************************************)
EXTENDS Naturals, Sequences, Functions

CONSTANTS
  Hosts,        \* the addresses a server may ask for
  Missing,      \* no file is there
  Unreadable    \* it is there and cannot be read

Line == [kind : {"blank", "bad", "entry"}, covers : SUBSET Hosts]

ASSUME AccessAssumption == {Missing, Unreadable} \cap Seq(Line) = {}

\* A list is the set of its entries, an entry the set of addresses it covers.
Lists == SUBSET SUBSET Hosts

Parse(lines) == {e.covers : e \in {l \in Range(lines) : l.kind = "entry"}}

\* LoadFile: a missing file is an empty list; an unreadable one has none.
Loads(file) == file # Unreadable
Loaded(file) == IF file = Missing THEN {} ELSE Parse(file)

Allows(list, host) == \E e \in list : host \in e

\* Entries: what the commands show is every field, also those Parse skips, and
\* nothing when the file cannot be read.
Entries(file) ==
  IF file \in {Missing, Unreadable} THEN <<>>
  ELSE SelectSeq(file, LAMBDA l : l.kind # "blank")
=============================================================================

------------------------------- MODULE Update -------------------------------
(***************************************************************************)
(* "network-agent update": internal/update/update.go.  The latest release  *)
(* is asked for, and when it is not the version of the binary that asks it *)
(* is downloaded next to the executable and renamed over it.               *)
(*                                                                         *)
(* A binary is the version it is built from, or torn: cut short, or never  *)
(* written back before the power failed.                                   *)
(***************************************************************************)
EXTENDS Naturals

CONSTANTS
  Releases,   \* the versions that are released
  Torn,       \* the content of a file that is not a whole binary
  NoFile

VARIABLES
  exe,      \* the executable: its content, and whether it has mode 0755
  safe,     \* what of it has been written back
  latest,   \* what the release server calls the latest release
  tmp,      \* the temporary file of the update in progress
  upd,      \* that update: its step, its own version, the tag it was told
  mishap,   \* history: a write was lost, without an error or to a power failure
  windows   \* the build: a program that is running cannot be replaced there

fileVars == <<exe, safe, tmp, mishap>>

File(content, mode) == [bin |-> content, runs |-> mode]
Absent == File(NoFile, FALSE)
Idle == [step |-> "idle", from |-> NoFile, tag |-> NoFile]

\* exec finds a whole binary that it may run.
Executable(f) == f.bin \in Releases /\ f.runs

Init ==
  /\ \E v \in Releases : exe = File(v, TRUE)
  /\ safe = exe /\ latest = exe.bin
  /\ tmp = Absent /\ upd = Idle
  /\ mishap = FALSE

-----------------------------------------------------------------------------
At(step) == upd.step = step
Goto(step) == upd' = [upd EXCEPT !.step = step]

\* The binary that runs knows its own version.
Begin == /\ At("idle") /\ Executable(exe)
         /\ upd' = [step |-> "asking", from |-> exe.bin, tag |-> NoFile]
         /\ UNCHANGED <<fileVars, latest, windows>>

\* Before the temporary file exists, an error just ends the command.
Ends == upd' = Idle /\ UNCHANGED <<fileVars, latest, windows>>

\* The answer is compared for equality: a release that is older than the binary
\* is "new" as well.
FetchLatest == /\ At("asking")
               /\ latest # upd.from
               /\ upd' = [upd EXCEPT !.step = "creating", !.tag = latest]
               /\ UNCHANGED <<fileVars, latest, windows>>

\* It is up to date, or the request for the release or for its archive fails.
FetchEnds == (At("asking") \/ At("creating")) /\ Ends

CreateTemp == /\ At("creating")
              /\ tmp' = File(Torn, FALSE)
              /\ Goto("extracting")
              /\ UNCHANGED <<exe, safe, mishap, latest, windows>>

\* Fault: an archive that ends early is taken for a whole one.
ExtractAnyway == /\ At("extracting")
                 /\ tmp' \in {File(upd.tag, FALSE), File(Torn, FALSE)}
                 /\ Goto("chmod")
                 /\ UNCHANGED <<exe, safe, mishap, latest, windows>>

\* extractBinary and Close, whose error no one looks at: a write the system
\* refuses only then is lost in silence.
Extract == /\ At("extracting")
           /\ \/ /\ tmp' = File(upd.tag, FALSE)
                 /\ Goto("chmod")
                 /\ UNCHANGED mishap
              \/ /\ Goto("removing")
                 /\ UNCHANGED <<tmp, mishap>>
              \/ /\ Goto("chmod")
                 /\ mishap' = TRUE
                 /\ UNCHANGED tmp
           /\ UNCHANGED <<exe, safe, latest, windows>>

Chmod == /\ At("chmod")
         /\ \/ tmp' = [tmp EXCEPT !.runs = TRUE] /\ Goto("renaming")
            \/ Goto("removing") /\ UNCHANGED tmp
         /\ UNCHANGED <<exe, safe, mishap, latest, windows>>

Rename == /\ At("renaming")
          /\ \/ /\ ~windows
                /\ exe' = tmp /\ tmp' = Absent
             \/ UNCHANGED <<exe, tmp>>
          /\ Goto("removing")
          /\ UNCHANGED <<safe, mishap, latest, windows>>

\* The deferred Remove of what the rename has not taken away.
Remove == /\ At("removing")
          /\ tmp' = Absent /\ upd' = Idle
          /\ UNCHANGED <<exe, safe, mishap, latest, windows>>

\* The operator interrupts it: no deferred function runs, and a temporary file
\* stays behind under its random name, which no later update looks at.
Interrupt == /\ ~At("idle")
             /\ tmp' = Absent /\ upd' = Idle
             /\ UNCHANGED <<exe, safe, mishap, latest, windows>>

-----------------------------------------------------------------------------
(* The rest of the world. *)

\* Another release is the latest one, or one is withdrawn.
Publish == /\ latest' \in Releases
           /\ UNCHANGED <<fileVars, upd, windows>>

WriteBack == /\ safe' = exe
             /\ UNCHANGED <<exe, tmp, mishap, latest, upd, windows>>

\* Nothing was synced: until it is written back, a new executable may be lost to
\* the old one or to a file with no content.
PowerFailure ==
  /\ exe' \in {safe, exe} \cup (IF safe = exe THEN {} ELSE {File(Torn, TRUE)})
  /\ safe' = exe'
  /\ tmp' = Absent /\ upd' = Idle
  /\ mishap' = (mishap \/ exe' # exe)
  /\ UNCHANGED <<latest, windows>>

Command == \/ Begin \/ FetchLatest \/ FetchEnds \/ CreateTemp \/ Extract
           \/ Chmod \/ Rename \/ Remove \/ Interrupt

World == Publish \/ WriteBack
=============================================================================

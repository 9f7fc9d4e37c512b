----------------------------- MODULE SessionKey -----------------------------
(***************************************************************************)
(* How a starting server comes by the key that signs its session tokens    *)
(* (cmd/vouchsafe/main.go, runServe and loadOrCreateSessionKey, and        *)
(* NewSigner in internal/session/token.go), given --session-key.           *)
(*                                                                         *)
(* Servers are processes on one machine with one key path.  os.ReadFile    *)
(* is one step.  os.WriteFile is two: it opens the path with O_CREATE and  *)
(* O_TRUNC, and writes; it is neither exclusive nor atomic nor fsynced.    *)
(* Any step may fail, and any process may be killed between two.           *)
(***************************************************************************)
EXTENDS Naturals

CONSTANTS
    Servers,            \* processes that may run, also at the same time
    Keys,               \* whole keys: 32 bytes or more
    Part,               \* file contents of less than 32 bytes, none included
    MaxStarts,          \* bound on the number of starts
    PowerLossPossible,  \* may the machine go down?
    None

ASSUME StartAssumption == MaxStarts \in Nat /\ PowerLossPossible \in BOOLEAN
ASSUME KeyAssumption ==
    Part \notin Keys /\ None \notin Keys /\ Part # None

VARIABLES
    file,     \* what the key path names, None when it names nothing
    synced,   \* has the kernel written that back?
    pc,       \* how far each process got
    key,      \* the key it holds
    drawn,    \* history: the keys generated
    signed,   \* history: the keys that tokens were signed with
    starts,   \* how many starts there were
    orderly   \* history: one server at a time so far, and no power loss

vars == <<file, synced, pc, key, drawn, signed, starts, orderly>>

Stages == {"down", "read", "create", "write", "signer", "serving"}

TypeOK ==
    /\ file \in Keys \cup {Part, None}
    /\ synced \in BOOLEAN
    /\ pc \in [Servers -> Stages]
    /\ key \in [Servers -> Keys \cup {Part, None}]
    /\ \A s \in Servers : key[s] = None <=> pc[s] \in {"down", "read"}
    /\ drawn \subseteq Keys
    /\ signed \subseteq Keys
    /\ starts \in 0 .. MaxStarts
    /\ orderly \in BOOLEAN

\* The path names nothing, or a key that somebody put there.
Init ==
    /\ file \in Keys \cup {None}
    /\ synced = TRUE
    /\ pc = [s \in Servers |-> "down"]
    /\ key = [s \in Servers |-> None]
    /\ drawn = {file} \cap Keys
    /\ signed = {}
    /\ starts = 0
    /\ orderly = TRUE

At(s, stage) == pc[s] = stage

Goto(s, stage) == pc' = [pc EXCEPT ![s] = stage]

\* The process ends, with an error or killed.
Exit(s) == /\ Goto(s, "down")
           /\ key' = [key EXCEPT ![s] = None]
           /\ UNCHANGED <<file, synced, drawn, signed, starts, orderly>>

\* rand.Read: 32 bytes that nobody drew before.
Generate(s) ==
    /\ \E k \in Keys \ drawn : /\ key' = [key EXCEPT ![s] = k]
                               /\ drawn' = drawn \cup {k}
    /\ Goto(s, "create")

\* runServe, flags and credential store in order.
Start(s) ==
    /\ At(s, "down")
    /\ starts < MaxStarts
    /\ starts' = starts + 1
    /\ orderly' = (orderly /\ \A z \in Servers : At(z, "down"))
    /\ Goto(s, "read")
    /\ UNCHANGED <<file, synced, key, drawn, signed>>

\* Fault: what os.ReadFile returned is used without a look at its error.
ReadKeyUnchecked(s) ==
    /\ At(s, "read")
    /\ key' = [key EXCEPT ![s] = file]
    /\ Goto(s, "signer")
    /\ UNCHANGED <<file, synced, drawn, signed, starts, orderly>>

\* os.ReadFile: the file as it is, or a new key when there is no file.
ReadKey(s) ==
    /\ At(s, "read")
    /\ \/ /\ file # None
          /\ key' = [key EXCEPT ![s] = file]
          /\ Goto(s, "signer")
          /\ UNCHANGED drawn
       \/ /\ file = None
          /\ Generate(s)
    /\ UNCHANGED <<file, synced, signed, starts, orderly>>

\* Fault: any error of os.ReadFile is taken for a missing file.
ReadFailsAsMissing(s) ==
    /\ At(s, "read")
    /\ Generate(s)
    /\ UNCHANGED <<file, synced, signed, starts, orderly>>

\* os.ReadFile fails, and not because there is no file.
ReadFails(s) == At(s, "read") /\ Exit(s)

\* os.WriteFile, first half: the path names an empty file now, whatever it
\* named before.
CreateFile(s) ==
    /\ At(s, "create")
    /\ file' = Part
    /\ synced' = FALSE
    /\ Goto(s, "write")
    /\ UNCHANGED <<key, drawn, signed, starts, orderly>>

\* Fault: the server starts with a key that it could not store.
CreateFailsUnnoticed(s) ==
    /\ At(s, "create")
    /\ Goto(s, "signer")
    /\ UNCHANGED <<file, synced, key, drawn, signed, starts, orderly>>

\* It cannot be opened for writing.
CreateFails(s) == At(s, "create") /\ Exit(s)

\* os.WriteFile, second half: all 32 bytes from the beginning of the file.
WriteKey(s) ==
    /\ At(s, "write")
    /\ file' = key[s]
    /\ synced' = FALSE
    /\ Goto(s, "signer")
    /\ UNCHANGED <<key, drawn, signed, starts, orderly>>

\* The disk is full; what was written stays.
WriteFails(s) == /\ At(s, "write")
                 /\ file' = Part
                 /\ synced' = FALSE
                 /\ Goto(s, "down")
                 /\ key' = [key EXCEPT ![s] = None]
                 /\ UNCHANGED <<drawn, signed, starts, orderly>>

\* Fault: NewSigner takes a key of any length.
NewSignerAnyLength(s) ==
    /\ At(s, "signer")
    /\ Goto(s, "serving")
    /\ UNCHANGED <<file, synced, key, drawn, signed, starts, orderly>>

\* NewSigner refuses a short key, and runServe returns its error.
NewSigner(s) ==
    /\ At(s, "signer")
    /\ \/ key[s] = Part /\ Exit(s)
       \/ /\ key[s] # Part
          /\ Goto(s, "serving")
          /\ UNCHANGED <<file, synced, key, drawn, signed, starts, orderly>>

\* Signer.Issue, for anyone.
Sign(s) ==
    /\ At(s, "serving")
    /\ signed' = signed \cup {key[s]}
    /\ UNCHANGED <<file, synced, pc, key, drawn, starts, orderly>>

\* Someone stops the process, wherever it is.
Kill(s) == pc[s] # "down" /\ Exit(s)

\* The kernel writes the file back.
Writeback == /\ ~synced
             /\ synced' = TRUE
             /\ UNCHANGED <<file, pc, key, drawn, signed, starts, orderly>>

\* The machine goes down.  Of a file not written back it may lose the data,
\* and the name too.
PowerLoss ==
    /\ PowerLossPossible
    /\ file' \in IF synced THEN {file} ELSE {file, Part, None}
    /\ synced' = TRUE
    /\ pc' = [s \in Servers |-> "down"]
    /\ key' = [s \in Servers |-> None]
    /\ orderly' = FALSE
    /\ UNCHANGED <<drawn, signed, starts>>

Next ==
    \/ \E s \in Servers :
          \/ Start(s) \/ ReadKey(s) \/ ReadFails(s)
          \/ CreateFile(s) \/ CreateFails(s) \/ WriteKey(s) \/ WriteFails(s)
          \/ NewSigner(s) \/ Sign(s) \/ Kill(s)
    \/ Writeback
    \/ PowerLoss

Spec == Init /\ [][Next]_vars

-----------------------------------------------------------------------------
(* Properties.                                                             *)

\* No server signs with a key that is too short, although it may read the
\* file while another one is writing it, or after a crash in the middle
\* (token.go 42-47).
NeverSignsWithPart ==
    \A s \in Servers : At(s, "serving") => key[s] \in Keys

\* A key is in place and no server is on its way to write another.
Settled == /\ file \in Keys
           /\ \A s \in Servers : ~At(s, "create") /\ ~At(s, "write")

\* Once that is so it stays so, in whatever way starts overlap, fail and are
\* killed: no start ever replaces the key again (main.go 227-233).
KeyIsStable ==
    [][Settled => (Settled' /\ file' = file) \/ PowerLoss]_vars

\* Tokens survive restarts: a server that serves verifies all that was ever
\* signed, through failed starts, kills and first starts cut short (main.go
\* 215-217).  Two servers that start at once on a path without a file may end
\* up with a key each, and power loss may take the file, so this is as long as
\* neither happened.
TokensSurvive ==
    orderly => \A s \in Servers : At(s, "serving") => signed \subseteq {key[s]}

\* While no server is starting, the path names no file or one that the next
\* start can load (main.go 214: the fresh key is generated and persisted).
KeyFileIsUsable ==
    (\A s \in Servers : pc[s] \in {"down", "serving"}) => file # Part

-----------------------------------------------------------------------------
(* Why TokensSurvive holds.                                                *)

\* There is at most one process, and what it does to the file it does before
\* it serves.
OrderlyInv ==
    orderly =>
        /\ \A s, z \in Servers : ~At(s, "down") /\ ~At(z, "down") => s = z
        /\ file \in Keys => signed \subseteq {file}
        /\ file \notin Keys => signed = {}
        /\ \A s \in Servers :
              /\ At(s, "create") => file = None /\ key[s] \in Keys
              /\ At(s, "write") => file = Part /\ key[s] \in Keys
              /\ At(s, "signer") => key[s] = file
              /\ At(s, "serving") => key[s] = file /\ file \in Keys

=============================================================================

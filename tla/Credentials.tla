----------------------------- MODULE Credentials -----------------------------
(***************************************************************************)
(* The data of internal/store/file.go and what each method of Store does   *)
(* to it, as functions of the contents: no file, no mutex, no steps.       *)
(*                                                                         *)
(* A credential keeps the fields a decision depends on: its owner, its     *)
(* public key (named by the authenticator that holds the private one) and  *)
(* its signature counter.  The file's JSON map from base64 ID to           *)
(* credential is a function from Ids.                                      *)
(***************************************************************************)
EXTENDS Naturals

CONSTANTS Ids, Users, Authenticators, Counts, NoCred

Credential == [user : Users, key : Authenticators, count : Counts]

ASSUME NoCredAssumption == NoCred \notin Credential

\* A loaded document; a missing or empty file loads as Empty.
Contents == [Ids -> Credential \cup {NoCred}]
Empty    == [i \in Ids |-> NoCred]

Reads  == [kind : {"FindByID"}, id : Ids]
          \cup [kind : {"FindByUsername"}, user : Users]
Writes == [kind : {"AddCredential"}, id : Ids, cred : Credential]
          \cup [kind : {"UpdateSignCount"}, id : Ids, count : Counts]
          \cup [kind : {"DeleteCredential"}, id : Ids]
Ops    == Reads \cup Writes

\* AddCredential refuses a stored ID; the other two writes refuse one that
\* is not stored.
Refused(op, m) ==
    \/ op.kind = "AddCredential" /\ m[op.id] # NoCred
    \/ op.kind \in {"UpdateSignCount", "DeleteCredential"}
       /\ m[op.id] = NoCred

\* The document a write that is not refused saves.
Effect(op, m) ==
    CASE op.kind = "AddCredential"    -> [m EXCEPT ![op.id] = op.cred]
      [] op.kind = "UpdateSignCount"  -> [m EXCEPT ![op.id].count = op.count]
      [] op.kind = "DeleteCredential" -> [m EXCEPT ![op.id] = NoCred]
      [] OTHER                        -> m

\* The credentials a read returns.
Selects(op, i, m) ==
    \/ op.kind = "FindByID" /\ i = op.id
    \/ op.kind = "FindByUsername" /\ m[i] # NoCred /\ m[i].user = op.user

Found(op, m) ==
    [i \in Ids |-> IF Selects(op, i, m) THEN m[i] ELSE NoCred]

\* What a method returns: an error, or nil with the credentials it found.
Answers == [status : {"ok", "refused", "error"}, found : Contents]

Answer(op, m) == [status |-> IF Refused(op, m) THEN "refused" ELSE "ok",
                  found  |-> Found(op, m)]
IOError == [status |-> "error", found |-> Empty]

=============================================================================

------------------------------ MODULE KeyFiles ------------------------------
(***************************************************************************)
(* keygen (internal/keys/keys.go, cmd/cli/keygen.go), and commands that    *)
(* sign and verify with what they find on the disk: several processes      *)
(* generate a key pair under one prefix, at the same time or after one     *)
(* another, and write .priv and then .pub.  Files are created exclusively, *)
(* every system call may fail, and a process may die between two of them.  *)
(* The key that a process has drawn is told apart by the process.          *)
(*                                                                         *)
(* An operator named X_Deviation is a plausible wrong version of X, which  *)
(* nothing uses: some property fails when it takes the place of X.         *)
(***************************************************************************)
CONSTANTS
    Runs,       \* runs of keygen
    Absent

ASSUME KeyFilesConstants == Absent \notin Runs \cup [key : Runs, whole : BOOLEAN]

VARIABLES
    files,      \* "priv", "pub" -> the keygen that wrote it and whether all of it
                \*   is there, or Absent
    stage,      \* run -> the system call it makes next, or how it ended
    signed,     \* the keys that envelope create has signed with
    leaks       \* the runs that could not remove a file, which they report

fileVars == <<files, stage, signed, leaks>>

Paths == {"priv", "pub"}
Ended == {<<"done">>, <<"failed">>, <<"dead">>}

KeygenInit ==
    /\ files = [path \in Paths |-> Absent]
    /\ stage = [r \in Runs |-> <<"create", "priv">>]
    /\ signed = {} /\ leaks = {}

Goto(r, call) == stage' = [stage EXCEPT ![r] = call]
Put(path, content) == files' = [files EXCEPT ![path] = content]

\* What Generate does after a writeBase64 that failed: the private key of this
\* attempt is removed, and none that was there before.
After_Deviation(path) == <<"clean", "priv">>
After(path) == IF path = "priv" THEN <<"failed">> ELSE <<"clean", "priv">>

\* O_CREATE|O_EXCL.
Free_Deviation(path) == TRUE
Free(path) == files[path] = Absent

CreateFile(r, path) ==
    /\ stage[r] = <<"create", path>> /\ Free(path)
    /\ Put(path, [key |-> r, whole |-> FALSE])
    /\ Goto(r, <<"write", path>>)
    /\ UNCHANGED <<signed, leaks>>

\* The file is there, or cannot be created.
CreateFails(r, path) ==
    /\ stage[r] = <<"create", path>>
    /\ Goto(r, After(path))
    /\ UNCHANGED <<files, signed, leaks>>

Write(r, path) ==
    /\ stage[r] = <<"write", path>>
    /\ Put(path, [key |-> r, whole |-> TRUE])
    /\ Goto(r, IF path = "priv" THEN <<"create", "pub">> ELSE <<"done">>)
    /\ UNCHANGED <<signed, leaks>>

\* WriteString fails, or Close does after all was written.
WriteFails(r, path) ==
    /\ stage[r] = <<"write", path>>
    /\ \E whole \in BOOLEAN : Put(path, [key |-> r, whole |-> whole])
    /\ Goto(r, <<"undo", path>>)
    /\ UNCHANGED <<signed, leaks>>

\* os.Remove of the file just created, which may fail; the caller is told.
Undo(r, path) ==
    /\ stage[r] = <<"undo", path>>
    /\ Goto(r, After(path))
    /\ \/ Put(path, Absent) /\ UNCHANGED <<signed, leaks>>
       \/ leaks' = leaks \cup {r} /\ UNCHANGED <<files, signed>>

Clean(r) ==
    /\ stage[r] = <<"clean", "priv">>
    /\ Goto(r, <<"failed">>)
    /\ \/ Put("priv", Absent) /\ UNCHANGED <<signed, leaks>>
       \/ leaks' = leaks \cup {r} /\ UNCHANGED <<files, signed>>

Die(r) ==
    /\ stage[r] \notin Ended
    /\ Goto(r, <<"dead">>)
    /\ UNCHANGED <<files, signed, leaks>>

\* LoadPrivate and LoadPublic accept a key of the right size, so no part of one.
Loads(path) == files[path] # Absent /\ files[path].whole

\* envelope create.
CreateEnvelope ==
    /\ Loads("priv")
    /\ signed' = signed \cup {files["priv"].key}
    /\ UNCHANGED <<files, stage, leaks>>

\* envelope verify of what was signed with a key.
Verifies(key) == Loads("pub") /\ files["pub"].key = key

KeygenNext ==
    \/ \E r \in Runs :
         \/ \E path \in Paths :
              \/ CreateFile(r, path) \/ CreateFails(r, path)
              \/ Write(r, path) \/ WriteFails(r, path) \/ Undo(r, path)
         \/ Clean(r) \/ Die(r)
    \/ CreateEnvelope

KeygenSpec == KeygenInit /\ [][KeygenNext]_fileVars

-----------------------------------------------------------------------------
(* Properties. *)

\* A pair that keygen has announced is there, whole, and stays: no other keygen
\* on its prefix overwrites it, replaces a half of it or removes it while it
\* cleans up after itself (O_EXCL, keys.go:68; keys.go:29 "Only remove the
\* private file created by this attempt"; docs/server.md:21).
AnnouncedPairsStay ==
    \A r \in Runs : stage[r] = <<"done">> =>
        \A path \in Paths : files[path] = [key |-> r, whole |-> TRUE]

\* What was signed with a private key found on the disk verifies with the public
\* key found beside it, whenever that loads and wherever a keygen died, unless
\* the keygen of that key has reported that it failed (and has removed the key
\* under the reader's eyes), or some keygen that it could not remove a file.
SignaturesVerify ==
    \A k \in signed : Loads("pub") /\ leaks = {} => Verifies(k) \/ stage[k] = <<"failed">>
=============================================================================

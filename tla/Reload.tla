------------------------------- MODULE Reload -------------------------------
(***************************************************************************)
(* What the IdP takes from files, when it starts and at /admin/reload      *)
(* (infra/idp/main.py): the agents' capabilities, which it keeps in memory *)
(* (agents/loader.py) and checks for separation of duties                  *)
(* (agents/sod_check.py), and the users, which it keeps in SQLite          *)
(* (users/loader.py).  An operator edits the files at any time.            *)
(*                                                                         *)
(* An agent without a file counts as one whose file allows nothing.        *)
(***************************************************************************)
EXTENDS Naturals

CONSTANTS
  Reloads,       \* requests to /admin/reload
  Orchestrators, \* the agents, by the role their files give them
  Executors,
  Users,
  Capabilities,  \* the sets of actions that a file may allow
  Grants,        \* what a user's file may grant
  MaxEdits       \* bound: edits of the files

Agents == Orchestrators \cup Executors
NoFile == "no file"
Boot == "boot"   \* the load of a process that starts
Loads == Reloads \cup {Boot}

ASSUME LoadAssumption == Boot \notin Reloads /\ MaxEdits \in Nat

VARIABLES
  capFiles,      \* the actions that each agent's file allows
  userFiles,     \* what each user's file grants
  badFiles,      \* agents and users whose file does not parse or validate
  edits,         \* how often the files were edited
  inForce,       \* _capabilities
  userRows,      \* table users
  load,          \* how far each load has come
  todo,          \* the users' files it has listed and not read
  \* History.
  begunAt,       \* edits when a load began
  refused        \* did the last load of capabilities end with an error?

FileVars == <<capFiles, userFiles, badFiles, edits, inForce, userRows, load, todo,
              begunAt, refused>>

None == [a \in Agents |-> {}]

ReloadTypeOK ==
  /\ capFiles \in [Agents -> Capabilities]
  /\ inForce \in [Agents -> Capabilities \cup {{}}]
  /\ userFiles \in [Users -> Grants \cup {NoFile}]
  /\ userRows \in [Users -> Grants \cup {NoFile}]
  /\ badFiles \subseteq Agents \cup Users
  /\ load \in [Loads -> {"idle", "users", "done", "failed"}]
  /\ todo \in [Loads -> SUBSET Users] /\ \A l \in Loads : todo[l] # {} => load[l] = "users"
  /\ edits \in 0..MaxEdits /\ begunAt \in [Loads -> 0..MaxEdits] /\ refused \in BOOLEAN

ReloadInit ==
  /\ capFiles \in [Agents -> Capabilities]
  /\ userFiles \in [Users -> Grants \cup {NoFile}]
  /\ badFiles = {} /\ edits = 0
  /\ inForce = None
  /\ userRows = [u \in Users |-> NoFile]
  /\ load = [l \in Loads |-> "idle"]
  /\ todo = [l \in Loads |-> {}]
  /\ begunAt = [l \in Loads |-> 0] /\ refused = FALSE

fileVars == <<capFiles, userFiles, badFiles, edits>>

\* The operator changes one file, breaks it, or mends it.
Edit ==
  /\ edits < MaxEdits /\ edits' = edits + 1
  /\ \/ \E a \in Agents, c \in Capabilities :
          capFiles' = [capFiles EXCEPT ![a] = c] /\ badFiles' = badFiles \ {a}
          /\ UNCHANGED userFiles
     \/ \E u \in Users, g \in Grants \cup {NoFile} :
          userFiles' = [userFiles EXCEPT ![u] = g] /\ badFiles' = badFiles \ {u}
          /\ UNCHANGED capFiles
     \/ \E f \in Agents \cup Users :
          badFiles' = badFiles \cup {f} /\ UNCHANGED <<capFiles, userFiles>>
  /\ UNCHANGED <<inForce, userRows, load, todo, begunAt, refused>>

-----------------------------------------------------------------------------
(* load_capabilities and run_global_sod_check: one step, without an await. *)

\* check_sod: orchestrators and executors share no action.
Separate(caps) ==
  \A o \in Orchestrators, e \in Executors : caps[o] \cap caps[e] = {}

\* The dictionary is emptied first; files are read in any order, up to the
\* first that is bad.
Readable == {a \in Agents : a \notin badFiles}

LoadCapabilities(caps) ==
  \E read \in IF badFiles \cap Agents = {} THEN {Agents} ELSE SUBSET Readable :
    caps = [a \in Agents |-> IF a \in read THEN capFiles[a] ELSE {}]

\* Faulty variant: the capabilities in force before are checked, not those read.
AcceptedBefore(caps) == badFiles \cap Agents = {} /\ Separate(inForce)

\* Does the load go on after the capabilities were put in force?
Accepted(caps) == badFiles \cap Agents = {} /\ Separate(caps)

UsersListed == {u \in Users : userFiles[u] # NoFile}

Begin(l) ==
  /\ load[l] = "idle" /\ (l # Boot => load[Boot] = "done")
  /\ LoadCapabilities(inForce')
  /\ load' = [load EXCEPT ![l] = IF Accepted(inForce') THEN "users" ELSE "failed"]
  /\ todo' = [todo EXCEPT ![l] = IF Accepted(inForce') THEN UsersListed ELSE {}]
  /\ begunAt' = [begunAt EXCEPT ![l] = edits]
  /\ refused' = ~Accepted(inForce')
  /\ UNCHANGED <<fileVars, userRows>>

\* load_users: a file is read and its row handed to SQLite in one step; rows
\* are written in that order.  A user without a file keeps the row.
Upsert(u) == userRows' = [userRows EXCEPT ![u] = userFiles[u]]

LoadUser(l, u) ==
  /\ u \in todo[l] /\ u \notin badFiles /\ userFiles[u] # NoFile
  /\ Upsert(u)
  /\ todo' = [todo EXCEPT ![l] = @ \ {u}]
  /\ UNCHANGED <<fileVars, inForce, load, begunAt, refused>>

\* A file that is bad or gone, or a row that SQLite refuses, ends the load.
LoadFails(l) ==
  /\ load[l] = "users"
  /\ load' = [load EXCEPT ![l] = "failed"] /\ todo' = [todo EXCEPT ![l] = {}]
  /\ UNCHANGED <<fileVars, inForce, userRows, begunAt, refused>>

LoadEnds(l) ==
  /\ load[l] = "users" /\ todo[l] = {}
  /\ load' = [load EXCEPT ![l] = "done"]
  /\ UNCHANGED <<fileVars, inForce, userRows, todo, begunAt, refused>>

\* The process is killed, or has stopped because its start failed; another
\* one starts.
Restart ==
  /\ load[Boot] # "idle"
  /\ load' = [l \in Loads |->
       IF l = Boot THEN "idle" ELSE IF load[l] = "users" THEN "failed" ELSE load[l]]
  /\ todo' = [l \in Loads |-> {}]
  /\ inForce' = None /\ refused' = FALSE
  /\ UNCHANGED <<fileVars, userRows, begunAt>>

ReloadNext ==
  \/ Edit \/ Restart
  \/ \E l \in Loads :
       Begin(l) \/ LoadFails(l) \/ LoadEnds(l) \/ \E u \in Users : LoadUser(l, u)

ReloadSpec == ReloadInit /\ [][ReloadNext]_FileVars

-----------------------------------------------------------------------------
(* Properties. *)

(***************************************************************************)
(* A process that answers requests has capabilities in force that give no  *)
(* action to an orchestrator and an executor, unless the last reload was   *)
(* answered with an error: the dictionary is replaced before it is checked *)
(* and is not put back (infra/idp/main.py:203).                            *)
(***************************************************************************)
SeparateUnlessRefused ==
  load[Boot] = "done" /\ ~refused => Separate(inForce)

(***************************************************************************)
(* Once a load that began after the last edit has ended well, memory and   *)
(* table follow the files, whatever older loads are still under way or     *)
(* fail later: each file is read just before its row is written.  Users    *)
(* whose file is gone are the exception (users/loader.py:27).              *)
(***************************************************************************)
AnsweredReloadHolds ==
  \A l \in Loads : load[l] = "done" /\ begunAt[l] = edits /\ load[Boot] = "done" =>
    /\ inForce = capFiles
    /\ \A u \in Users : userFiles[u] # NoFile => userRows[u] = userFiles[u]

\* What is in force is separated and is what the files said, but for a reload that
\* was answered with an error or met an edit (infra/idp/main.py:195-215).
ReloadsHold == SeparateUnlessRefused /\ AnsweredReloadHolds
=============================================================================

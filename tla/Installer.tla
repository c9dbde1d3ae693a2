------------------------------ MODULE Installer ------------------------------
(***************************************************************************)
(* bootstrap/install.sh on one Proxmox host, and the first start of what   *)
(* it installs.  A run inspects the host, plans, waits for the operator,   *)
(* and then deletes, creates or updates a container (CT), one `pct exec`   *)
(* after another.  `set -e` ends it at the first command that fails, and   *)
(* the operator can stop it anywhere; the next run has only the state      *)
(* file, what it finds in the CTs, and its arguments.                      *)
(*                                                                         *)
(* One installer runs at a time.  A secret is named by the number of the   *)
(* run that generated it: a run makes at most one of each kind.            *)
(***************************************************************************)
EXTENDS Naturals, FiniteSetsExt

CONSTANTS Vmids,     \* the VMIDs from PREFERRED_CTID on
          Versions,  \* THESHED_REF: branches and tags
          MaxRuns,   \* bound: the runs of the installer
          None, Abort,
          OtherCt, OtherVm  \* other guests: a CT of this host; a VM, or on another node

Preferred == Min(Vmids)
Foreign == {OtherCt, OtherVm}

VARIABLES guest,   \* VMID -> None, a foreign guest, or a Shed CT (ShedCt below)
          state,   \* the ctid of the state file, or None
          run,     \* the installer's variables while it runs, or None
          runs,    \* how many runs there were
          lost     \* history: CTs that lost the only copy of their .env

vars == <<guest, state, run, runs, lost>>

Secret == 0 .. MaxRuns      \* 0: made by an installer before the first of these runs
Env == [db : Secret, op : Secret, root : Secret \cup {None}, ref : Versions]
\* Postgres: the password it was initialised with, the seeded identity
Volume == [db : Secret, op : Secret \cup {None}]
Notes == [op : Secret \cup {None}, root : Secret \cup {None}]
ShedCt == [up     : BOOLEAN,
           root   : Secret,                              \* its root password
           code   : Versions \cup {None},                \* /opt/theshed
           env    : Env \cup {None},                     \* /opt/theshed/.env
           tmp    : Env \cup {None},                     \* /tmp/theshed.env
           made   : BOOLEAN,                             \* history: an update made .env
           box    : Env \cup {None},                     \* what the containers run with
           volume : Volume \cup {None},
           notes  : Notes \cup {None}]                 \* the last summary
Invocation == [delete : BOOLEAN, how : {"yes", "parallel", "ask"}, ref : Versions]

\* What the plan announces: the action, the VMID, and what is said to be there
\* (print_plan shows its hostname).
Warnings == [action : {"delete", "fresh", "update"}, ct : Vmids,
             at : {"nothing", "shed", "other"}]

\* The script's variables, while it is at one of its steps
Run == [step   : {"delete", "fresh", "update", "clone", "env", "backup", "remove", "reclone",
                  "restore", "upsert", "compose", "reload", "persist", "wait"},
        update : BOOLEAN, ct : Vmids, shown : Warnings, inv : Invocation,
        op     : Secret \cup {None},                \* OPERATOR_PASSWORD
        root   : Secret \cup {None}]                \* CT_ROOT_PASSWORD

ASSUME InstallerAssumption ==
    /\ Vmids \subseteq Nat /\ Vmids # {} /\ MaxRuns \in Nat
    /\ None \notin Nat \cup Versions \cup Foreign \cup Env \cup Volume \cup Notes
    /\ Abort \notin Nat /\ Abort # None /\ OtherCt # OtherVm
    /\ (Foreign \cup {None}) \cap ShedCt = {} /\ None \notin Run

Shed == {v \in Vmids : guest[v] \notin Foreign \cup {None}}

-----------------------------------------------------------------------------
(* inspect_existing and choose_install_action                              *)

\* pct status: a CT of this host
IsCt(guests, v) == guests[v] \notin {None, OtherVm}

\* Mutant: what runs on another node does not count
UsedHere(guests, v) == IsCt(guests, v)

\* vmid_in_use: here or anywhere in the cluster
VmidInUse(guests, v) == guests[v] # None

\* next_free_vmid
NextFree(guests) == LET free == {v \in Vmids : ~VmidInUse(guests, v)}
                    IN  IF free = {} THEN Abort ELSE Min(free)

\* first_listed_shed_vmid
Listed == IF Shed = {} THEN None ELSE Min(Shed)

\* delete_target_ctid: the recorded CT, if one is recorded
RecordedOr(ct) == IF state # None THEN state ELSE ct

\* inspect_existing: the recorded CT if it is there, else the first Shed CT, and
\* without any the recorded or preferred VMID.  Somebody else's CT at the
\* recorded VMID ends the run.
Inspected ==
    IF state # None /\ guest[state] = OtherCt THEN Abort
    ELSE IF state \in Shed THEN state
    ELSE IF Listed # None THEN Listed
    ELSE RecordedOr(Preferred)

\* classify_install
Classified(delete, present) ==
    IF delete THEN "delete" ELSE IF present THEN "update" ELSE "fresh"

\* install_plan_warning.  A plan that does not update knows of Shed CTs only.
Warning(plan) ==
    [action |-> plan.action, ct |-> plan.ct,
     at |-> IF plan.ct \in Shed THEN "shed"
            ELSE IF plan.action = "update" THEN "other" ELSE "nothing"]

\* select_upgrade_ct: the one Shed CT; if there are several, the VMID the operator
\* types, of which select_ct asks only whether a CT has it.
Upgradable == IF \E u, v \in Shed : u # v THEN {v \in Vmids : IsCt(guest, v)} ELSE Shed

\* Mutant: what is there is decided by the state file
PlansByStateFile(inv) ==
    LET free  == NextFree(guest)
        fresh == IF free = Abort THEN {} ELSE {[action |-> "fresh", ct |-> free]}
    IN  IF Inspected = Abort THEN {}
        ELSE IF inv.delete THEN {[action |-> "delete", ct |-> Inspected]}
        ELSE IF state \notin Shed THEN fresh
        ELSE {[action |-> "update", ct |-> Inspected]}

\* choose_install_action: the plans a run may end up with.  The operator who is
\* asked picks a parallel install or an upgrade.
Plans(inv) ==
    LET free   == NextFree(guest)
        fresh  == IF free = Abort THEN {} ELSE {[action |-> "fresh", ct |-> free]}
        action == Classified(inv.delete, Shed # {})
    IN  IF Inspected = Abort THEN {}
        ELSE IF action = "delete" THEN {[action |-> action, ct |-> Inspected]}
        ELSE IF action = "fresh" \/ inv.how = "parallel" THEN fresh
        ELSE IF inv.how = "yes" THEN {[action |-> "update", ct |-> Inspected]}
        ELSE fresh \cup {[action |-> "update", ct |-> v] : v \in Upgradable}

\* The run prints its plan (`shown`) and waits for the operator's yes.
Start(inv) ==
    /\ run = None /\ runs < MaxRuns
    /\ \E p \in Plans(inv) :
          run' = [step |-> p.action, update |-> p.action = "update", ct |-> p.ct,
                  shown |-> Warning(p), inv |-> inv, op |-> None, root |-> None]
    /\ runs' = runs + 1
    /\ UNCHANGED <<guest, state, lost>>

-----------------------------------------------------------------------------
(* The steps of a run.                                                     *)

At(step) == run # None /\ run.step = step
GoTo(step) == run' = [run EXCEPT !.step = step]
Ct == guest[run.ct]
Put(ct) == guest' = [guest EXCEPT ![run.ct] = ct]
InCt(step) == At(step) /\ Ct.up     \* `pct exec` needs a running CT

\* Mutant: the first Shed CT there is, whatever the state file says
DeleteListed == IF Listed # None THEN Listed ELSE run.ct

\* delete_existing_ct prefers the recorded CT to the one inspected ...
DeleteTarget == RecordedOr(run.ct)

\* ... and refuses a guest that is not a Shed CT.  Then prepare_new_ct.
Delete ==
    /\ At("delete")
    /\ guest[DeleteTarget] # OtherCt
    /\ guest' = IF DeleteTarget \in Shed THEN [guest EXCEPT ![DeleteTarget] = None] ELSE guest
    /\ NextFree(guest') # Abort
    /\ run' = [run EXCEPT !.step = "fresh", !.ct = NextFree(guest')]
    /\ state' = None
    /\ lost' = lost \ {DeleteTarget}
    /\ UNCHANGED runs

\* ensure_operator_password, ensure_ct_root_password
Ensured(secret) == IF secret = None THEN runs ELSE secret

\* create_ct, which looks again whether the VMID is in use.  The new CT may fail
\* to start, which ends the run.
Create ==
    /\ At("fresh")
    /\ ~VmidInUse(guest, run.ct)
    /\ \E up \in BOOLEAN :
          /\ Put([up |-> up, root |-> runs, code |-> None, env |-> None, tmp |-> None,
                  made |-> FALSE, box |-> None, volume |-> None, notes |-> None])
          /\ run' = IF up THEN [run EXCEPT !.step = "clone", !.op = runs, !.root = runs]
                    ELSE None
    /\ UNCHANGED <<state, runs, lost>>

\* bootstrap_ct: rm -rf && git clone
Clone ==
    /\ InCt("clone")
    /\ Put([Ct EXCEPT !.code = run.inv.ref, !.env = None]) /\ GoTo("env")
    /\ UNCHANGED <<state, runs, lost>>

\* write_fresh_env
FreshEnv ==
    [db |-> runs, op |-> Ensured(run.op), root |-> Ensured(run.root), ref |-> run.inv.ref]

WriteEnv ==
    /\ InCt("env")
    /\ Put([Ct EXCEPT !.env = FreshEnv]) /\ GoTo("compose")
    /\ UNCHANGED <<state, runs, lost>>

\* load_operator_from_ct
Loaded(r, ct) == IF ct.env = None THEN r ELSE [r EXCEPT !.op = ct.env.op, !.root = ct.env.root]

\* Somebody else's CT once it has a Shed CT's hostname: nothing else is The Shed's.
Claimed == [up |-> TRUE, root |-> 0, code |-> None, env |-> None, tmp |-> None,
            made |-> FALSE, box |-> None, volume |-> None, notes |-> None]

\* update_existing_ct: give the CT its hostname, whatever it was before, start it
\* if it is stopped, and load the logins ...
BeginUpdate ==
    /\ At("update") /\ IsCt(guest, run.ct)
    /\ LET ct == IF run.ct \in Shed THEN Ct ELSE Claimed
       IN  Put([ct EXCEPT !.up = TRUE]) /\ run' = [Loaded(run, ct) EXCEPT !.step = "backup"]
    /\ UNCHANGED <<state, runs, lost>>

\* ... then in one `bash -c` that may be cut off after any of its commands: keep
\* .env outside the application directory ...
Backup ==
    /\ InCt("backup")
    /\ Put([Ct EXCEPT !.tmp = IF Ct.env # None THEN Ct.env ELSE Ct.tmp]) /\ GoTo("remove")
    /\ UNCHANGED <<state, runs, lost>>

\* ... remove the directory ...
Remove ==
    /\ InCt("remove")
    /\ Put([Ct EXCEPT !.code = None, !.env = None]) /\ GoTo("reclone")
    /\ UNCHANGED <<state, runs, lost>>

\* ... clone it again ...
CloneAgain ==
    /\ InCt("reclone")
    /\ Put([Ct EXCEPT !.code = run.inv.ref]) /\ GoTo("restore")
    /\ UNCHANGED <<state, runs, lost>>

\* ... and copy .env back if there is a copy.
RestoreNothing(ct) == ct.env       \* mutant: the copy is left in /tmp
Restored(ct) == IF ct.tmp # None THEN ct.tmp ELSE ct.env

Restore ==
    /\ InCt("restore")
    /\ Put([Ct EXCEPT !.env = Restored(Ct)]) /\ GoTo("upsert")
    /\ UNCHANGED <<state, runs, lost>>

Upserted(env) == [env EXCEPT !.ref = run.inv.ref]

\* Without a copy write_fresh_env makes an .env; then upsert_ct_env THESHED_REF.
Upsert ==
    /\ InCt("upsert")
    /\ Put(IF Ct.env = None
           THEN [Ct EXCEPT !.env = Upserted(FreshEnv), !.made = TRUE]
           ELSE [Ct EXCEPT !.env = Upserted(Ct.env)])
    /\ run' = [run EXCEPT !.step = "compose",
                 !.op = IF Ct.env = None THEN Ensured(run.op) ELSE run.op,
                 !.root = IF Ct.env = None THEN Ensured(run.root) ELSE run.root]
    /\ UNCHANGED <<state, runs, lost>>

\* compose_up: build, then recreate the containers with what .env says.
ComposeUp ==
    /\ InCt("compose") /\ Ct.code # None
    /\ Put([Ct EXCEPT !.box = Ct.env])
    /\ GoTo(IF run.update THEN "reload" ELSE "wait")
    /\ UNCHANGED <<state, runs, lost>>

NoChpasswd(ct) == ct               \* mutant: the password is only written to .env
Chpasswd(ct) == [ct EXCEPT !.root = runs]

\* After an update the logins are loaded again.  A CT whose .env has no root
\* password gets one: set in the CT, then written to .env.
Reload ==
    /\ InCt("reload")
    /\ LET loaded == Loaded(run, Ct)
       IN  IF loaded.root # None
           THEN run' = [loaded EXCEPT !.step = "wait"] /\ UNCHANGED guest
           ELSE /\ run' = [loaded EXCEPT !.step = "persist", !.root = runs]
                /\ Put(Chpasswd(Ct))
    /\ UNCHANGED <<state, runs, lost>>

Persist ==
    /\ InCt("persist")
    /\ Put([Ct EXCEPT !.env = IF @ = None THEN None ELSE [@ EXCEPT !.root = run.root]])
    /\ GoTo("wait")
    /\ UNCHANGED <<state, runs, lost>>

\* GET /api/setup/status answers: migrations and seeding are behind it.
Ready(ct) == /\ ct.up /\ ct.box # None /\ ct.volume # None
             /\ ct.volume.db = ct.box.db /\ ct.volume.op # None

\* completion_summary, which proxmox_notes keeps with the CT: the logins that are known
Summary(r) == [op |-> r.op, root |-> r.root]

\* wait_ready, verify_running_image, write_state, print_summary
Finish ==
    /\ InCt("wait")
    /\ Ready(Ct) /\ Ct.box.ref = run.inv.ref
    /\ Put([Ct EXCEPT !.notes = Summary(run)])
    /\ state' = run.ct
    /\ run' = None
    /\ UNCHANGED <<runs, lost>>

\* A command fails, a wait times out, the answer is not yes, or Ctrl-C.
Interrupt == run # None /\ run' = None /\ UNCHANGED <<guest, state, runs, lost>>

-----------------------------------------------------------------------------
(* What happens in the CTs and on the host meanwhile.                      *)

\* Postgres initialises an empty volume with the password of its container.
DbStarts(v) ==
    /\ v \in Shed /\ guest[v].up /\ guest[v].box # None /\ guest[v].volume = None
    /\ guest' = [guest EXCEPT ![v].volume = [db |-> guest[v].box.db, op |-> None]]
    /\ UNCHANGED <<state, run, runs, lost>>

\* seed_operator_from_env
Seed(volume, box) == IF volume.op = None THEN [volume EXCEPT !.op = box.op] ELSE volume

\* The app migrates the database, if it can log in to it, and seeds the operator.
AppStarts(v) ==
    /\ v \in Shed /\ guest[v].up /\ guest[v].box # None /\ guest[v].volume # None
    /\ guest[v].volume.db = guest[v].box.db
    /\ guest' = [guest EXCEPT ![v].volume = Seed(guest[v].volume, guest[v].box)]
    /\ UNCHANGED <<state, run, runs, lost>>

\* A CT goes down, and perhaps up again: no container restarts by itself, /tmp may
\* be emptied, and a shell that was running in the CT is gone.
GoesDown(v) ==
    /\ v \in Shed /\ guest[v].up
    /\ \E up, emptied \in BOOLEAN :
          /\ guest' = [guest EXCEPT ![v].up = up, ![v].box = None,
                                    ![v].tmp = IF emptied THEN None ELSE @]
          /\ lost' = IF emptied /\ guest[v].env = None /\ guest[v].tmp # None
                     THEN lost \cup {v} ELSE lost
    /\ run' = IF run # None /\ run.ct = v /\ run.step \in {"remove", "reclone", "restore"}
              THEN None ELSE run
    /\ UNCHANGED <<state, runs>>

\* Somebody creates a guest, or destroys one the installer is not at work in: also
\* the planned one, while the prompt waits.
Appears(v) ==
    /\ guest[v] = None
    /\ guest' \in {[guest EXCEPT ![v] = g] : g \in Foreign}
    /\ UNCHANGED <<state, run, runs, lost>>

DestroyedByHand(v) ==
    /\ guest[v] # None
    /\ (run # None /\ run.ct = v) => run.step \in {"delete", "fresh", "update"}
    /\ guest' = [guest EXCEPT ![v] = None]
    /\ lost' = lost \ {v}
    /\ UNCHANGED <<state, run, runs>>

\* An installation from before .env had a root password
Older(ref) ==
    LET env == [db |-> 0, op |-> 0, root |-> None, ref |-> ref]
    IN  [up |-> TRUE, root |-> 0, code |-> ref, env |-> env, tmp |-> None, made |-> FALSE,
         box |-> env, volume |-> [db |-> 0, op |-> 0], notes |-> [op |-> 0, root |-> None]]

Init ==
    /\ \/ guest = [v \in Vmids |-> None] /\ state = None
       \/ \E ref \in Versions :
             /\ guest = [v \in Vmids |-> IF v = Preferred THEN Older(ref) ELSE None]
             /\ state \in {None, Preferred}
    /\ run = None /\ runs = 0 /\ lost = {}

Step == \/ Delete \/ Create \/ Clone \/ WriteEnv \/ BeginUpdate \/ Backup \/ Remove
        \/ CloneAgain \/ Restore \/ Upsert \/ ComposeUp \/ Reload \/ Persist \/ Finish

Next ==
    \/ \E inv \in Invocation : Start(inv)
    \/ Step
    \/ Interrupt
    \/ \E v \in Vmids : DbStarts(v) \/ AppStarts(v) \/ GoesDown(v) \/ Appears(v)
                           \/ DestroyedByHand(v)

Spec == Init /\ [][Next]_vars
-----------------------------------------------------------------------------
\* What the last summary says logs in, however many runs were cut short before it:
\* the operator's password is the one the database knows ("Operator login and data
\* volumes are kept"), and the CT password is root's, unless an update had to make the
\* .env: write_fresh_env then makes up a password that nobody sets.
SummaryLogsIn ==
    \A v \in Shed : guest[v].notes # None =>
        /\ guest[v].volume # None /\ guest[v].volume.op = guest[v].notes.op
        /\ guest[v].notes.root # None /\ ~guest[v].made => guest[v].root = guest[v].notes.root

\* Whatever an update was doing when it was cut off, the password of an initialised
\* database is still in .env or in its copy, unless the CT restarted at that moment.
DatabaseStaysOpen ==
    \A v \in Shed \ lost : guest[v].volume # None =>
        \/ guest[v].env # None /\ guest[v].env.db = guest[v].volume.db
        \/ guest[v].env = None /\ guest[v].tmp # None /\ guest[v].tmp.db = guest[v].volume.db

\* A run that waits for the app is not waiting for something that cannot happen:
\* the containers run with the requested ref and a password the database accepts.
WaitCanEnd ==
    (At("wait") /\ run.ct \in Shed \ lost /\ Ct.box # None) =>
        /\ Ct.box.ref = run.inv.ref
        /\ Ct.volume # None => Ct.volume.db = Ct.box.db

\* An update that was cut off can be repeated.
CanRecover == DatabaseStaysOpen /\ WaitCanEnd

\* A run touches a guest that is not a Shed CT in one way only, whatever the state file
\* says and whoever took a VMID since the plan was made: an update takes a CT of this
\* host over, without destroying it.  Then the operator was asked, typed that VMID and
\* was shown its own hostname, or a Shed CT was there when the plan was shown.
ForeignOnlyAsPlanned ==
    [][Step => \A v \in Vmids : guest[v] \in Foreign /\ guest'[v] # guest[v] =>
          /\ guest[v] = OtherCt /\ guest'[v] \in ShedCt
          /\ run.shown.action = "update" /\ run.shown.ct = v
          /\ run.shown.at = "other" => run.inv.how = "ask"]_vars

\* --delete destroys the CT the operator was told would be destroyed, and confirmed, no
\* other and none that was announced as missing, although it reads the state file again.
DestroysWhatWasShown ==
    [][Step => \A v \in Shed : guest'[v] = None =>
          run.inv.delete /\ run.shown = [action |-> "delete", ct |-> v, at |-> "shed"]]_vars

\* --yes "never invents a parallel instance", even after the recorded CT is gone.
YesNeverParallel ==
    [][Step => \A v \in Vmids : guest[v] = None /\ guest'[v] \in ShedCt =>
          (run.inv.how = "yes" /\ ~run.inv.delete => Shed = {})]_vars
=============================================================================

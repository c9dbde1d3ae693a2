--------------------------- MODULE InstallerProofs ---------------------------
(***************************************************************************)
(* Proofs about Installer, for any number of runs, VMIDs and versions.     *)
(***************************************************************************)
EXTENDS Installer, WellFoundedInduction, TLAPS

TypeOK ==
  /\ guest \in [Vmids -> ShedCt \cup Foreign \cup {None}]
  /\ state \in Vmids \cup {None}
  /\ run \in Run \cup {None}
  /\ runs \in Secret
  /\ lost \subseteq Vmids

-----------------------------------------------------------------------------
(* What holds of a Shed CT, whether or not a run is working on it.         *)

Copies(ct) == {ct.env, ct.tmp, ct.box} \ {None}

\* .env, or its copy while there is none
Live(ct) == IF ct.env # None THEN ct.env ELSE ct.tmp

\* No secret of the database is younger than n.
DbsBelow(ct, n) ==
  /\ \A e \in Copies(ct) : e.db < n
  /\ ct.volume # None => ct.volume.db < n

\* A database's password goes with one operator's password.
PairsAgree(ct) ==
  /\ \A e, f \in Copies(ct) : e.db = f.db => e.op = f.op
  /\ \A e \in Copies(ct) :
        ct.volume # None /\ ct.volume.op # None /\ ct.volume.db = e.db
          => ct.volume.op = e.op

RootAgrees(ct) ==
  ~ct.made => \A e \in {ct.env, ct.tmp} \ {None} : e.root # None => ct.root = e.root

\* The database that is, or would be, initialised opens with the live copy.
Opens(ct) ==
  /\ ct.volume # None => Live(ct) # None /\ Live(ct).db = ct.volume.db
  /\ ct.box # None => Live(ct) # None /\ Live(ct).db = ct.box.db

\* A password of root that was printed is still in the live copy, and root's.
RootKept(ct) ==
  ~ct.made /\ ct.notes # None /\ ct.notes.root # None =>
    /\ ct.root = ct.notes.root
    /\ Live(ct) # None => Live(ct).root # None

OpNoted(ct) ==
  ct.notes # None =>
    ct.volume # None /\ ct.volume.op # None /\ ct.volume.op = ct.notes.op

CtOK(ct) == PairsAgree(ct) /\ RootAgrees(ct) /\ RootKept(ct) /\ OpNoted(ct)

-----------------------------------------------------------------------------
(* What holds of the run and the CT it works on.                           *)

\* No .env has been written yet.
Early == {"delete", "fresh", "update", "clone", "env", "backup", "remove",
          "reclone", "restore", "upsert"}
InsideCt == {"clone", "env", "backup", "remove", "reclone", "restore", "upsert",
             "compose", "reload", "persist", "wait"}

Youngest == IF run # None /\ run.step \in Early THEN runs ELSE runs + 1

\* A CT between `pct create` and its first .env
Blank(r, ct) ==
  /\ ct.env = None /\ ct.tmp = None /\ ct.box = None /\ ct.volume = None
  /\ ct.notes = None /\ r.root # None /\ ct.root = r.root /\ r.op # None

\* The containers run with .env.
Runs(r, ct) ==
  ct.box # None => /\ ct.box.db = ct.env.db /\ ct.box.op = ct.env.op
                   /\ ct.box.ref = r.inv.ref

\* The run knows what .env says.
Knows(r, ct) ==
  /\ ct.env # None /\ r.op = ct.env.op /\ ct.env.ref = r.inv.ref
  /\ Runs(r, ct)

\* After an update has put .env back, a copy that is left has its root password.
SameRoot(ct) == ct.tmp # None => ct.env.root = ct.tmp.root

StepOK(r, ct) ==
  /\ r.step \in {"clone", "env"} => Blank(r, ct) /\ ~r.update
  /\ r.step \in {"backup", "remove", "reclone", "restore", "upsert", "reload", "persist"}
       => r.update
  /\ r.step = "remove" => (ct.env # None => ct.tmp = ct.env)
  /\ r.step \in {"reclone", "restore"} => ct.env = None
  /\ r.step = "upsert" => (ct.tmp # None => ct.env # None) /\ SameRoot(ct)
  /\ r.step = "compose" =>
       /\ ct.env # None /\ ct.env.ref = r.inv.ref
       /\ r.update => SameRoot(ct)
       /\ ~r.update => r.op = ct.env.op /\ r.root = ct.env.root
  /\ r.step = "reload" =>
       /\ ct.env # None /\ ct.env.ref = r.inv.ref /\ Runs(r, ct) /\ SameRoot(ct)
  /\ r.step = "persist" => Knows(r, ct) /\ r.root # None /\ ct.root = r.root
  /\ r.step = "wait" => Knows(r, ct) /\ r.root = ct.env.root

\* The update that was announced; only an operator who was asked got one of a CT that
\* was not a Shed CT then.
Asked(r) == /\ r.shown.action = "update" /\ r.shown.ct = r.ct
            /\ r.shown.at = "other" => r.inv.how = "ask"

RunOK ==
  run # None =>
    /\ run.step \in InsideCt => run.ct \in Shed /\ StepOK(run, guest[run.ct])
    /\ run.step = "update" => run.update /\ Asked(run)
    /\ run.step \in {"delete", "fresh"} => ~run.update
    /\ run.step = "delete" =>
         /\ run.inv.delete /\ run.shown.action = "delete" /\ run.ct = run.shown.ct
         /\ run.ct \in Shed => run.shown.at = "shed"
         /\ state \in Shed => state = run.ct
    /\ run.step = "fresh" /\ run.inv.how = "yes" /\ ~run.inv.delete => Shed = {}

Sound(ct, n) == CtOK(ct) /\ DbsBelow(ct, n)

InstallInv ==
  /\ TypeOK
  /\ RunOK
  /\ \A v \in Shed : Sound(guest[v], Youngest)
  /\ \A v \in Shed \ lost : Opens(guest[v])

-----------------------------------------------------------------------------
(* Choosing a VMID.                                                        *)

LEMMA MinExists ==
  ASSUME NEW S \in SUBSET Nat, S # {}
  PROVE  Min(S) \in S
<1>1. PICK x \in S : \A y \in S : ~ (<<y, x>> \in OpToRel(<, Nat))
  BY NatLessThanWellFounded, WFMin
<1>2. ASSUME NEW y \in S PROVE x =< y
  <2>1. ~ (y < x)
    BY <1>1 DEF OpToRel
  <2> QED BY <2>1
<1> QED BY <1>2 DEF Min

LEMMA NextFreeIs ==
  ASSUME NEW g, NextFree(g) # Abort
  PROVE  NextFree(g) \in Vmids
<1> DEFINE free == {v \in Vmids : ~VmidInUse(g, v)}
<1>1. free # {}
  BY DEF NextFree
<1>2. free \in SUBSET Nat
  BY InstallerAssumption
<1>3. Min(free) \in free
  BY <1>1, <1>2, MinExists
<1> QED BY <1>1, <1>3 DEF NextFree

LEMMA ListedIs == Shed # {} => Listed \in Shed
<1>1. Shed \in SUBSET Nat
  BY InstallerAssumption DEF Shed
<1> QED BY <1>1, MinExists DEF Listed

LEMMA InspectedIs ==
  ASSUME TypeOK, Inspected # Abort
  PROVE  Inspected \in Vmids /\ (Shed # {} => Inspected \in Shed)
<1>1. Preferred \in Vmids
  BY InstallerAssumption, MinExists DEF Preferred
<1>2. Shed \subseteq Vmids
  BY DEF Shed
<1>3. (Shed = {} => Listed = None) /\ (Shed # {} => Listed \in Shed /\ Listed # None)
  BY <1>2, ListedIs, InstallerAssumption DEF Listed
<1> QED BY <1>1, <1>2, <1>3 DEF Inspected, RecordedOr, TypeOK

\* A --delete shows what it will destroy: the recorded CT, unless that one is no
\* Shed CT any more.
LEMMA InspectedState ==
  ASSUME state \in Shed, Inspected # Abort
  PROVE  Inspected = state
BY DEF Inspected

LEMMA PlansAre ==
  ASSUME TypeOK, NEW inv \in Invocation, NEW p \in Plans(inv)
  PROVE  /\ p.action \in {"delete", "fresh", "update"} /\ p.ct \in Vmids
         /\ p.action = "delete" => inv.delete /\ p.ct = Inspected /\ Inspected # Abort
         /\ p.action = "fresh" /\ inv.how = "yes" /\ ~inv.delete => Shed = {}
         /\ p.action = "update" /\ p.ct \notin Shed => inv.how = "ask"
<1> DEFINE free  == NextFree(guest)
           fresh == IF free = Abort THEN {} ELSE {[action |-> "fresh", ct |-> free]}
<1>1. Inspected # Abort /\ Inspected \in Vmids
  BY InspectedIs DEF Plans
<1>2. \A q \in fresh : q.action = "fresh" /\ q.ct \in Vmids
  BY NextFreeIs
<1>3. Shed \subseteq Vmids /\ Upgradable \subseteq Vmids
  BY DEF Shed, Upgradable
<1>4. CASE inv.delete
  <2>1. p = [action |-> "delete", ct |-> Inspected]
    BY <1>1, <1>4 DEF Plans, Classified
  <2> QED BY <1>1, <1>4, <2>1
<1>5. CASE ~inv.delete /\ (inv.how = "parallel" \/ Shed = {})
  <2>1. p \in fresh
    BY <1>1, <1>5 DEF Plans, Classified
  <2> QED BY <1>2, <1>5, <2>1
<1>6. CASE ~inv.delete /\ inv.how # "parallel" /\ Shed # {}
  <2>1. \/ p = [action |-> "update", ct |-> Inspected]
        \/ inv.how # "yes" /\ p \in fresh
        \/ inv.how # "yes" /\ \E v \in Upgradable : p = [action |-> "update", ct |-> v]
    BY <1>1, <1>6 DEF Plans, Classified
  <2>2. Inspected \in Shed
    BY <1>1, <1>6, InspectedIs
  <2>3. inv.how # "yes" => inv.how = "ask"
    BY <1>6 DEF Invocation
  <2> QED BY <1>1, <1>2, <1>3, <2>1, <2>2, <2>3
<1> QED BY <1>4, <1>5, <1>6

-----------------------------------------------------------------------------
(* What each command does to the CT.                                       *)

LEMMA SecretIs == Secret \subseteq Nat /\ None \notin Secret
BY InstallerAssumption DEF Secret

\* The fields of a CT, and what is none of their values
LEMMA CtFields ==
  ASSUME NEW ct \in ShedCt
  PROVE  /\ ct.up \in BOOLEAN /\ ct.root \in Secret /\ ct.code \in Versions \cup {None}
         /\ ct.env \in Env \cup {None} /\ ct.tmp \in Env \cup {None}
         /\ ct.made \in BOOLEAN /\ ct.box \in Env \cup {None}
         /\ ct.volume \in Volume \cup {None} /\ ct.notes \in Notes \cup {None}
         /\ None \notin Env /\ None \notin Volume /\ None \notin Notes
BY InstallerAssumption DEF ShedCt

\* ct and new differ in what an update may change only.
Keeps(ct, new) ==
  /\ new \in ShedCt
  /\ new.made = ct.made /\ new.volume = ct.volume /\ new.notes = ct.notes
  /\ new.root = ct.root

\* What a step only moves about is as sound as it was.
LEMMA SameCopies ==
  ASSUME NEW ct \in ShedCt, NEW n \in Nat, Sound(ct, n), NEW new, Keeps(ct, new),
         new.box = ct.box, Live(new) = Live(ct),
         new.env \in {ct.env, ct.tmp, None}, new.tmp \in {ct.env, ct.tmp, None}
  PROVE  Sound(new, n) /\ (Opens(ct) => Opens(new))
<1>1. Copies(new) \subseteq Copies(ct)
  BY DEF Copies
<1>2. PairsAgree(new) /\ DbsBelow(new, n)
  BY <1>1 DEF Sound, CtOK, PairsAgree, DbsBelow, Keeps
<1>3. RootAgrees(new)
  BY DEF Sound, CtOK, RootAgrees, Keeps
<1>4. RootKept(new) /\ OpNoted(new)
  BY DEF Sound, CtOK, RootKept, OpNoted, Keeps
<1> QED BY <1>2, <1>3, <1>4 DEF Sound, CtOK, Opens, Keeps

LEMMA BackupCt ==
  ASSUME NEW ct \in ShedCt, NEW n \in Nat, Sound(ct, n), NEW new,
         new = [ct EXCEPT !.tmp = IF ct.env # None THEN ct.env ELSE ct.tmp]
  PROVE  /\ new \in ShedCt /\ Sound(new, n)
         /\ (new.env # None => new.tmp = new.env)
         /\ Opens(ct) => Opens(new)
<1>1. /\ Keeps(ct, new) /\ new.env = ct.env /\ new.box = ct.box
      /\ new.tmp = IF ct.env # None THEN ct.env ELSE ct.tmp
  BY DEF ShedCt, Keeps
<1>2. Live(new) = Live(ct)
  BY <1>1 DEF Live
<1>3. new.env \in {ct.env, ct.tmp, None} /\ new.tmp \in {ct.env, ct.tmp, None}
  BY <1>1
<1>4. Sound(new, n) /\ (Opens(ct) => Opens(new))
  BY <1>1, <1>2, <1>3, SameCopies
<1> QED BY <1>1, <1>4 DEF Keeps

\* .env goes, and its copy stays.
LEMMA RemoveCt ==
  ASSUME NEW ct \in ShedCt, NEW n \in Nat, Sound(ct, n), NEW new,
         ct.env # None => ct.tmp = ct.env,
         new = [ct EXCEPT !.code = None, !.env = None]
  PROVE  /\ new \in ShedCt /\ Sound(new, n) /\ new.env = None
         /\ Opens(ct) => Opens(new)
<1>1. /\ Keeps(ct, new) /\ new.env = None /\ new.box = ct.box /\ new.tmp = ct.tmp
  BY DEF ShedCt, Keeps
<1> QED BY <1>1, SameCopies DEF Live, Keeps

\* The application is cloned, or the CT started.
LEMMA CodeCt ==
  ASSUME NEW ct \in ShedCt, NEW n \in Nat, Sound(ct, n), NEW new, NEW c \in Versions,
         new = [ct EXCEPT !.code = c] \/ new = [ct EXCEPT !.up = TRUE]
  PROVE  /\ new \in ShedCt /\ Sound(new, n) /\ new.env = ct.env
         /\ Opens(ct) => Opens(new)
<1>1. /\ Keeps(ct, new) /\ new.env = ct.env /\ new.box = ct.box /\ new.tmp = ct.tmp
  BY DEF ShedCt, Keeps
<1> QED BY <1>1, SameCopies DEF Live, Keeps

\* The copy comes back.
LEMMA RestoreCt ==
  ASSUME NEW ct \in ShedCt, NEW n \in Nat, Sound(ct, n), NEW new, ct.env = None,
         new = [ct EXCEPT !.env = Restored(ct)]
  PROVE  /\ new \in ShedCt /\ Sound(new, n)
         /\ (new.tmp # None => new.env # None) /\ SameRoot(new)
         /\ Opens(ct) => Opens(new)
<1>1. /\ Keeps(ct, new) /\ new.env = ct.tmp /\ new.box = ct.box /\ new.tmp = ct.tmp
  BY DEF ShedCt, Keeps, Restored
<1> QED BY <1>1, SameCopies DEF Live, Keeps, SameRoot

\* An .env with secrets of its own, where there was neither one nor a copy: the
\* root password in it is the CT's, unless an update made it.
TakesEnv(ct, new, e) ==
  \/ new = [ct EXCEPT !.env = e, !.made = TRUE]
  \/ new = [ct EXCEPT !.env = e] /\ e.root = ct.root /\ ct.notes = None

LEMMA NewEnvCt ==
  ASSUME NEW ct \in ShedCt, NEW n \in Nat, Sound(ct, n), NEW new, NEW e \in Env,
         ct.env = None, ct.tmp = None, e.db = n, TakesEnv(ct, new, e)
  PROVE  /\ new \in ShedCt /\ Sound(new, n + 1) /\ new.env = e /\ new.tmp = None
         /\ Opens(ct) => Opens(new)
<1>1. /\ new \in ShedCt /\ new.env = e /\ new.tmp = None /\ new.box = ct.box
      /\ new.volume = ct.volume /\ new.notes = ct.notes /\ new.root = ct.root
      /\ new.made \/ (e.root = ct.root /\ ct.notes = None)
  <2>1. CASE new = [ct EXCEPT !.env = e, !.made = TRUE]
    BY <2>1 DEF ShedCt
  <2>2. CASE new = [ct EXCEPT !.env = e] /\ e.root = ct.root /\ ct.notes = None
    BY <2>2 DEF ShedCt
  <2> QED BY <2>1, <2>2 DEF TakesEnv
<1>2. e # None /\ None \notin Env
  BY CtFields
<1>3. Copies(new) = Copies(ct) \cup {e}
  BY <1>1, <1>2 DEF Copies
<1>4. \A f \in Copies(ct) : f.db < n /\ f \in Env /\ f.db \in Nat
  BY CtFields, SecretIs DEF Sound, DbsBelow, Copies, Env
<1>5. ct.volume # None => ct.volume.db < n /\ ct.volume.db \in Nat
  BY CtFields, SecretIs DEF Sound, DbsBelow, Volume
<1>6. PairsAgree(new)
  BY <1>1, <1>3, <1>4, <1>5 DEF Sound, CtOK, PairsAgree
<1>7. DbsBelow(new, n + 1)
  BY <1>1, <1>3, <1>4, <1>5 DEF DbsBelow
<1>8. RootAgrees(new) /\ RootKept(new) /\ OpNoted(new)
  BY <1>1, <1>2 DEF Sound, CtOK, RootAgrees, RootKept, OpNoted
<1>9. Opens(ct) => Opens(new)
  BY <1>1 DEF Opens, Live
<1> QED BY <1>1, <1>6, <1>7, <1>8, <1>9 DEF Sound, CtOK

\* .env changes in what is neither the database's nor the operator's.
LEMMA EditCt ==
  ASSUME NEW ct \in ShedCt, NEW n \in Nat, Sound(ct, n), NEW new, NEW e \in Env,
         ct.env # None, e.db = ct.env.db, e.op = ct.env.op,
         e.root = ct.env.root \/ (e.root = ct.root /\ e.root # None),
         new = [ct EXCEPT !.env = e]
  PROVE  /\ new \in ShedCt /\ Sound(new, n) /\ new.env = e
         /\ new.tmp = ct.tmp /\ new.box = ct.box /\ new.root = ct.root
         /\ Opens(ct) => Opens(new)
<1>1. /\ Keeps(ct, new) /\ new.env = e /\ new.box = ct.box /\ new.tmp = ct.tmp
  BY DEF ShedCt, Keeps
<1>2. e # None /\ ct.env \in Copies(ct)
  BY CtFields DEF Copies
<1>3. \A f \in Copies(new) :
        \/ f \in Copies(ct)
        \/ f = e /\ f.db = ct.env.db /\ f.op = ct.env.op
  BY <1>1 DEF Copies
<1>4. PairsAgree(new)
  BY <1>1, <1>2, <1>3 DEF Sound, CtOK, PairsAgree, Keeps
<1>5. DbsBelow(new, n)
  BY <1>1, <1>2, <1>3 DEF Sound, DbsBelow, Keeps
<1>6. RootAgrees(new)
  BY <1>1, <1>2 DEF Sound, CtOK, RootAgrees, Keeps
<1>7. RootKept(new) /\ OpNoted(new)
  BY <1>1, <1>2 DEF Sound, CtOK, RootKept, OpNoted, Keeps, Live
<1> QED BY <1>1, <1>2, <1>4, <1>5, <1>6, <1>7 DEF Sound, CtOK, Opens, Keeps, Live

\* The containers are recreated with .env.
LEMMA ComposeCt ==
  ASSUME NEW ct \in ShedCt, NEW n \in Nat, Sound(ct, n), NEW new, ct.env # None,
         new = [ct EXCEPT !.box = ct.env]
  PROVE  /\ new \in ShedCt /\ Sound(new, n) /\ new.env = ct.env
         /\ new.tmp = ct.tmp /\ new.box = ct.env
         /\ Opens(ct) => Opens(new)
<1>1. /\ Keeps(ct, new) /\ new.env = ct.env /\ new.box = ct.env /\ new.tmp = ct.tmp
  BY DEF ShedCt, Keeps
<1>2. Live(new) = Live(ct) /\ Copies(new) \subseteq Copies(ct)
  BY <1>1 DEF Live, Copies
<1>3. PairsAgree(new) /\ DbsBelow(new, n)
  BY <1>1, <1>2 DEF Sound, CtOK, PairsAgree, DbsBelow, Keeps
<1>4. RootAgrees(new)
  BY <1>1 DEF Sound, CtOK, RootAgrees, Keeps
<1>5. RootKept(new) /\ OpNoted(new)
  BY <1>1, <1>2 DEF Sound, CtOK, RootKept, OpNoted, Keeps
<1> QED BY <1>1, <1>2, <1>3, <1>4, <1>5 DEF Sound, CtOK, Opens, Keeps, Live

\* Root gets a password, where neither .env nor its copy has one.
LEMMA ChpasswdCt ==
  ASSUME NEW ct \in ShedCt, NEW n \in Nat, Sound(ct, n), NEW new, NEW p \in Secret,
         ct.env # None, ct.env.root = None, SameRoot(ct),
         new = [ct EXCEPT !.root = p]
  PROVE  /\ new \in ShedCt /\ Sound(new, n) /\ new.env = ct.env
         /\ new.tmp = ct.tmp /\ new.box = ct.box /\ new.root = p
         /\ Opens(ct) => Opens(new)
<1>1. /\ new \in ShedCt /\ new.env = ct.env /\ new.box = ct.box /\ new.tmp = ct.tmp
      /\ new.root = p /\ new.volume = ct.volume /\ new.notes = ct.notes
      /\ new.made = ct.made
  BY DEF ShedCt
<1>2. Live(new) = Live(ct) /\ Copies(new) = Copies(ct)
  BY <1>1 DEF Live, Copies
<1>3. PairsAgree(new) /\ DbsBelow(new, n)
  BY <1>1, <1>2 DEF Sound, CtOK, PairsAgree, DbsBelow
<1>4. RootAgrees(new)
  BY <1>1 DEF RootAgrees, SameRoot
<1>5. ~(~ct.made /\ ct.notes # None /\ ct.notes.root # None)
  BY DEF Sound, CtOK, RootKept, Live
<1>6. RootKept(new) /\ OpNoted(new)
  BY <1>1, <1>5 DEF Sound, CtOK, RootKept, OpNoted
<1> QED BY <1>1, <1>2, <1>3, <1>4, <1>6 DEF Sound, CtOK, Opens

\* The summary is printed of a CT whose app answers.
LEMMA NotesCt ==
  ASSUME NEW ct \in ShedCt, NEW n \in Nat, Sound(ct, n), NEW new, NEW r \in Run,
         Knows(r, ct), r.root = ct.env.root, Ready(ct),
         new = [ct EXCEPT !.notes = [op |-> r.op, root |-> r.root]]
  PROVE  /\ new \in ShedCt /\ Sound(new, n)
         /\ Opens(ct) => Opens(new)
<1> DEFINE notes == [op |-> r.op, root |-> r.root]
<1>0. notes \in Notes /\ notes # None /\ notes.op = r.op /\ notes.root = r.root
  BY CtFields DEF Run, Notes
<1>1. /\ new \in ShedCt /\ new.env = ct.env /\ new.box = ct.box /\ new.tmp = ct.tmp
      /\ new.root = ct.root /\ new.volume = ct.volume /\ new.notes = notes
      /\ new.made = ct.made
  BY <1>0 DEF ShedCt
<1> HIDE DEF notes
<1>2. Live(new) = Live(ct) /\ Copies(new) = Copies(ct) /\ Live(ct) = ct.env
  BY <1>1 DEF Live, Copies, Knows
<1>3. PairsAgree(new) /\ DbsBelow(new, n) /\ RootAgrees(new)
  BY <1>1, <1>2 DEF Sound, CtOK, PairsAgree, DbsBelow, RootAgrees
<1>4. RootKept(new)
  <2>1. ~ct.made /\ ct.env.root # None => ct.root = ct.env.root
    BY DEF Sound, CtOK, RootAgrees, Knows
  <2> QED BY <1>0, <1>1, <1>2, <2>1 DEF RootKept
<1>5. OpNoted(new)
  <2>1. ct.box \in Copies(ct) /\ ct.volume # None /\ ct.volume.op # None
        /\ ct.volume.db = ct.box.db
    BY DEF Ready, Copies
  <2>2. ct.volume.op = ct.box.op
    BY <2>1 DEF Sound, CtOK, PairsAgree
  <2>3. ct.box.op = r.op
    BY <2>1 DEF Knows, Runs, Copies
  <2> QED BY <1>0, <1>1, <2>1, <2>2, <2>3 DEF OpNoted
<1> QED BY <1>1, <1>2, <1>3, <1>4, <1>5 DEF Sound, CtOK, Opens

\* Postgres initialises the volume, or the app seeds the operator: each takes what
\* the containers run with.
LEMMA VolumeCt ==
  ASSUME NEW ct \in ShedCt, NEW n \in Nat, Sound(ct, n), NEW new, ct.box # None,
         \/ ct.volume = None /\ new = [ct EXCEPT !.volume = [db |-> ct.box.db, op |-> None]]
         \/ /\ ct.volume # None /\ ct.volume.db = ct.box.db
            /\ new = [ct EXCEPT !.volume = Seed(ct.volume, ct.box)]
  PROVE  /\ new \in ShedCt /\ Sound(new, n)
         /\ new.env = ct.env /\ new.tmp = ct.tmp /\ new.box = ct.box /\ new.root = ct.root
         /\ Opens(ct) => Opens(new)
<1>1. PICK volume \in Volume :
         /\ new = [ct EXCEPT !.volume = volume] /\ volume.db = ct.box.db
         /\ ct.volume = None => volume.op = None
         /\ ct.volume # None =>
              volume.op = IF ct.volume.op = None THEN ct.box.op ELSE ct.volume.op
  <2>1. CASE ct.volume = None
    <3>1. [db |-> ct.box.db, op |-> None] \in Volume
      BY CtFields DEF Volume, Env
    <3> QED BY <2>1, <3>1
  <2>2. CASE ct.volume # None
    <3> DEFINE volume == Seed(ct.volume, ct.box)
    <3>1. ct.volume \in Volume /\ ct.box \in Env
      BY <2>2, CtFields
    <3>2. /\ volume \in Volume /\ volume.db = ct.volume.db
          /\ volume.op = IF ct.volume.op = None THEN ct.box.op ELSE ct.volume.op
      BY <3>1 DEF Seed, Volume, Env
    <3> QED BY <2>2, <3>2
  <2> QED BY <2>1, <2>2
<1>2. /\ new \in ShedCt /\ new.env = ct.env /\ new.box = ct.box /\ new.tmp = ct.tmp
      /\ new.root = ct.root /\ new.volume = volume /\ new.notes = ct.notes
      /\ new.made = ct.made /\ volume # None
  BY <1>1, CtFields DEF ShedCt
<1>3. Live(new) = Live(ct) /\ Copies(new) = Copies(ct) /\ ct.box \in Copies(ct)
  BY <1>2 DEF Live, Copies
<1>4. DbsBelow(new, n)
  BY <1>1, <1>2, <1>3 DEF Sound, DbsBelow
<1>5. PairsAgree(new)
  BY <1>1, <1>2, <1>3 DEF Sound, CtOK, PairsAgree
<1>6. RootAgrees(new) /\ RootKept(new)
  BY <1>2, <1>3 DEF Sound, CtOK, RootAgrees, RootKept
<1>7. OpNoted(new)
  <2>1. ASSUME ct.notes # None
        PROVE  ct.volume # None /\ ct.volume.op # None /\ ct.volume.op = ct.notes.op
    BY <2>1 DEF Sound, CtOK, OpNoted
  <2> QED BY <1>1, <1>2, <2>1 DEF OpNoted
<1>8. Opens(ct) => Opens(new)
  BY <1>1, <1>2, <1>3 DEF Opens
<1> QED BY <1>2, <1>4, <1>5, <1>6, <1>7, <1>8 DEF Sound, CtOK

\* A CT goes down.
Down(ct, up, emptied) ==
  [ct EXCEPT !.up = up, !.box = None, !.tmp = IF emptied THEN None ELSE @]

LEMMA DownCt ==
  ASSUME NEW ct \in ShedCt, NEW n \in Nat, Sound(ct, n), NEW new,
         NEW up \in BOOLEAN, NEW emptied \in BOOLEAN, new = Down(ct, up, emptied)
  PROVE  /\ new \in ShedCt /\ Sound(new, n)
         /\ new.env = ct.env /\ new.tmp \in {ct.tmp, None} /\ new.box = None
         /\ new.root = ct.root /\ new.volume = ct.volume /\ new.notes = ct.notes
         /\ Opens(ct) /\ ~(emptied /\ ct.env = None /\ ct.tmp # None) => Opens(new)
<1>1. /\ new \in ShedCt /\ new.env = ct.env /\ new.box = None
      /\ new.tmp = IF emptied THEN None ELSE ct.tmp
      /\ new.root = ct.root /\ new.volume = ct.volume /\ new.notes = ct.notes
      /\ new.made = ct.made
  <2> DEFINE tmp == IF emptied THEN None ELSE ct.tmp
  <2>1. tmp \in Env \cup {None} /\ ct \in ShedCt
    BY CtFields
  <2>2. new = [ct EXCEPT !.up = up, !.box = None, !.tmp = tmp]
    BY DEF Down, ShedCt
  <2> HIDE DEF tmp
  <2>3. /\ new \in ShedCt /\ new.env = ct.env /\ new.box = None /\ new.tmp = tmp
        /\ new.root = ct.root /\ new.volume = ct.volume /\ new.notes = ct.notes
        /\ new.made = ct.made
    BY <2>1, <2>2 DEF ShedCt
  <2> QED BY <2>3 DEF tmp
<1>2. Copies(new) \subseteq Copies(ct) /\ Live(new) \in {Live(ct), None}
  BY <1>1 DEF Live, Copies
<1>3. DbsBelow(new, n) /\ PairsAgree(new)
  BY <1>1, <1>2 DEF Sound, DbsBelow, CtOK, PairsAgree
<1>4. RootAgrees(new)
  BY <1>1 DEF Sound, CtOK, RootAgrees
<1>5. RootKept(new) /\ OpNoted(new)
  BY <1>1, <1>2 DEF Sound, CtOK, RootKept, OpNoted
<1>6. Opens(ct) /\ ~(emptied /\ ct.env = None /\ ct.tmp # None) => Opens(new)
  <2>1. ~(emptied /\ ct.env = None /\ ct.tmp # None) => Live(new) = Live(ct)
    BY <1>1 DEF Live
  <2> QED BY <1>1, <2>1 DEF Opens
<1> QED BY <1>1, <1>3, <1>4, <1>5, <1>6 DEF Sound, CtOK

-----------------------------------------------------------------------------
(* From the CT to the host.                                                *)

LEMMA Older2Younger ==
  ASSUME NEW ct \in ShedCt, NEW n \in Nat, NEW m \in Nat, Sound(ct, n), n =< m
  PROVE  Sound(ct, m)
<1>1. \A e \in Copies(ct) : e.db \in Nat
  BY CtFields, SecretIs DEF Copies, Env
<1>2. ct.volume # None => ct.volume.db \in Nat
  BY CtFields, SecretIs DEF Volume
<1> QED BY <1>1, <1>2 DEF Sound, DbsBelow

LEMMA YoungestIs == TypeOK => Youngest \in {runs, runs + 1} /\ runs \in Nat /\ Youngest \in Nat
BY SecretIs DEF TypeOK, Youngest

LEMMA YoungestNext ==
  TypeOK' => Youngest' \in {runs', runs' + 1} /\ runs' \in Nat /\ Youngest' \in Nat
<1>1. TypeOK' => runs' \in Nat
  <2>1. TypeOK' => runs' \in Secret
    BY DEF TypeOK
  <2> QED BY <2>1, SecretIs
<1>2. Youngest' \in {runs', runs' + 1}
  BY DEF Youngest
<1> QED BY <1>1, <1>2

\* A Shed CT is replaced by another.
LEMMA ShedPut ==
  ASSUME TypeOK, NEW v \in Shed, NEW new \in ShedCt,
         guest' = [guest EXCEPT ![v] = new]
  PROVE  /\ v \in Vmids /\ guest[v] \in ShedCt /\ guest'[v] = new /\ Shed' = Shed
         /\ guest' \in [Vmids -> ShedCt \cup Foreign \cup {None}]
         /\ \A w \in Shed : guest[w] \in ShedCt /\ (w # v => guest'[w] = guest[w])
<1>1. \A w \in Shed : w \in Vmids /\ guest[w] \in ShedCt
  BY DEF Shed, TypeOK
<1>2. guest \in [Vmids -> ShedCt \cup Foreign \cup {None}]
  BY DEF TypeOK
<1>3. new \notin Foreign \cup {None}
  BY InstallerAssumption
<1>4. guest' \in [Vmids -> ShedCt \cup Foreign \cup {None}] /\ guest'[v] = new
      /\ \A w \in Vmids : w # v => guest'[w] = guest[w]
  BY <1>1, <1>2
<1>5. Shed' = Shed
  BY <1>1, <1>3, <1>4 DEF Shed
<1> QED BY <1>1, <1>4, <1>5

\* The run does something in its CT.
LEMMA MoveKeeps ==
  ASSUME InstallInv, run # None, run.ct \in Shed,
         NEW new \in ShedCt, guest' = [guest EXCEPT ![run.ct] = new],
         run' \in Run \cup {None},
         run' # None =>
            run'.ct = run.ct /\ run'.step \in InsideCt /\ StepOK(run', new),
         Youngest =< Youngest', Sound(new, Youngest'),
         Opens(Ct) => Opens(new),
         state' \in Vmids \cup {None}, runs' = runs, lost' = lost
  PROVE  InstallInv'
<1>0. TypeOK /\ \A w \in Shed : Sound(guest[w], Youngest)
  BY DEF InstallInv
<1>1. /\ guest'[run.ct] = new /\ Shed' = Shed
      /\ guest' \in [Vmids -> ShedCt \cup Foreign \cup {None}]
      /\ \A w \in Shed : guest[w] \in ShedCt /\ (w # run.ct => guest'[w] = guest[w])
  BY <1>0, ShedPut
<1>2. TypeOK'
  BY <1>0, <1>1 DEF TypeOK
<1>3. RunOK'
  <2>1. run' # None => run'.step \notin {"delete", "fresh", "update"}
    BY DEF InsideCt
  <2> QED BY <1>1, <2>1 DEF RunOK
<1>4. \A w \in Shed' : Sound(guest'[w], Youngest')
  <2>1. Youngest \in Nat /\ Youngest' \in Nat
    BY <1>0, <1>2, YoungestIs, YoungestNext
  <2> QED BY <1>0, <1>1, <2>1, Older2Younger
<1>5. \A w \in Shed' \ lost' : Opens(guest'[w])
  BY <1>1 DEF InstallInv, Ct
<1> QED BY <1>2, <1>3, <1>4, <1>5 DEF InstallInv

\* Something happens in a CT, whether or not the run is at work in it.
LEMMA EnvKeeps ==
  ASSUME InstallInv, NEW v \in Shed, NEW new \in ShedCt,
         guest' = [guest EXCEPT ![v] = new], run' \in {run, None},
         run' # None /\ run.ct = v /\ run.step \in InsideCt => StepOK(run, new),
         Sound(new, Youngest), lost' \in {lost, lost \cup {v}},
         v \notin lost' /\ Opens(guest[v]) => Opens(new),
         state' = state, runs' = runs
  PROVE  InstallInv'
<1>0. TypeOK /\ \A w \in Shed : Sound(guest[w], Youngest)
  BY DEF InstallInv
<1>1. /\ v \in Vmids /\ guest'[v] = new /\ Shed' = Shed
      /\ guest' \in [Vmids -> ShedCt \cup Foreign \cup {None}]
      /\ \A w \in Shed : guest[w] \in ShedCt /\ (w # v => guest'[w] = guest[w])
  BY <1>0, ShedPut
<1>2. TypeOK'
  BY <1>0, <1>1 DEF TypeOK
<1>3. RunOK'
  <2>1. ASSUME run' # None, run'.step \in InsideCt
        PROVE  run'.ct \in Shed' /\ StepOK(run', guest'[run'.ct])
    <3>1. run' = run /\ run # None /\ run.ct \in Shed /\ StepOK(run, guest[run.ct])
      BY <2>1 DEF InstallInv, RunOK
    <3> QED BY <1>1, <2>1, <3>1
  <2>2. run' # None => run' = run /\ run # None
    OBVIOUS
  <2> QED BY <1>1, <2>1, <2>2 DEF InstallInv, RunOK
<1>4. \A w \in Shed' : Sound(guest'[w], Youngest')
  <2>1. Youngest \in Nat /\ Youngest' \in Nat
    BY <1>0, <1>2, YoungestIs, YoungestNext
  <2>2. Youngest =< Youngest'
    BY <1>0, YoungestIs DEF Youngest
  <2> QED BY <1>0, <1>1, <2>1, <2>2, Older2Younger
<1>5. \A w \in Shed' \ lost' : Opens(guest'[w])
  BY <1>1 DEF InstallInv
<1> QED BY <1>2, <1>3, <1>4, <1>5 DEF InstallInv

-----------------------------------------------------------------------------
(* Every step keeps the invariant.                                         *)

LEMMA Inside ==
  ASSUME InstallInv, run # None, run.step \in InsideCt
  PROVE  /\ TypeOK /\ run \in Run /\ run.ct \in Shed /\ run.ct \in Vmids
         /\ StepOK(run, Ct) /\ Ct \in ShedCt /\ Sound(Ct, Youngest)
         /\ runs \in Secret /\ runs \in Nat /\ Youngest \in Nat
<1>1. TypeOK /\ run \in Run /\ run.ct \in Shed /\ StepOK(run, Ct) /\ Sound(Ct, Youngest)
  BY DEF InstallInv, TypeOK, RunOK, Ct
<1>2. runs \in Secret /\ runs \in Nat /\ Youngest \in Nat
  BY <1>1, YoungestIs DEF TypeOK
<1>3. run.ct \in Vmids /\ Ct \in ShedCt
  BY <1>1 DEF TypeOK, Shed, Ct
<1> QED BY <1>1, <1>2, <1>3

Steps == {"delete", "fresh", "update", "clone", "env", "backup", "remove", "reclone",
          "restore", "upsert", "compose", "reload", "persist", "wait"}

\* The run goes on to another step.
LEMMA GoesTo ==
  ASSUME run \in Run, NEW step \in Steps, GoTo(step)
  PROVE  /\ run' \in Run /\ run'.step = step /\ run' # None
         /\ run'.update = run.update /\ run'.ct = run.ct /\ run'.inv = run.inv
         /\ run'.op = run.op /\ run'.root = run.root
BY InstallerAssumption DEF Run, Steps, GoTo

\* The run goes on, with logins it has read or made up.
GoWith(step, op, root) == run' = [run EXCEPT !.step = step, !.op = op, !.root = root]

LEMMA GoesWith ==
  ASSUME run \in Run, NEW step \in Steps,
         NEW op \in Secret \cup {None}, NEW root \in Secret \cup {None},
         GoWith(step, op, root)
  PROVE  /\ run' \in Run /\ run'.step = step /\ run' # None
         /\ run'.update = run.update /\ run'.ct = run.ct /\ run'.inv = run.inv
         /\ run'.op = op /\ run'.root = root
<1>1. run' = [step |-> step, update |-> run.update, ct |-> run.ct, shown |-> run.shown,
              inv |-> run.inv, op |-> op, root |-> root]
  BY DEF GoWith, Run
<1>2. /\ run.update \in BOOLEAN /\ run.ct \in Vmids /\ run.shown \in Warnings
      /\ run.inv \in Invocation
  BY DEF Run
<1>3. run' \in Run
  BY <1>1, <1>2 DEF Run, Steps
<1> QED BY <1>1, <1>3, InstallerAssumption

\* A step from a state in which no .env of the run exists to another, or from one
\* in which it exists to another.
LEMMA SameAge ==
  ASSUME run # None, run' # None, runs' = runs,
         run.step \in Early <=> run'.step \in Early
  PROVE  Youngest' = Youngest
BY DEF Youngest

LEMMA CloneKeeps == InstallInv /\ Clone => InstallInv'
<1> SUFFICES ASSUME InstallInv, Clone PROVE InstallInv'
  OBVIOUS
<1> DEFINE new == [Ct EXCEPT !.code = run.inv.ref, !.env = None]
<1>1. run # None /\ run.step = "clone" /\ run.step \in InsideCt
  BY DEF Clone, InCt, At, InsideCt
<1>2. /\ run \in Run /\ run.ct \in Shed /\ StepOK(run, Ct) /\ Ct \in ShedCt
      /\ Sound(Ct, Youngest) /\ Youngest \in Nat /\ TypeOK
  BY <1>1, Inside
<1>3. /\ run' \in Run /\ run'.step = "env" /\ run' # None /\ run'.update = run.update
      /\ run'.ct = run.ct /\ run'.inv = run.inv /\ run'.op = run.op /\ run'.root = run.root
  BY <1>2, GoesTo DEF Clone, Steps
<1>4. Blank(run, Ct) /\ ~run.update
  BY <1>1, <1>2 DEF StepOK
<1>5. /\ new = [Ct EXCEPT !.code = run.inv.ref] /\ run.inv.ref \in Versions
  <2>1. Ct.env = None
    BY <1>4 DEF Blank
  <2> QED BY <1>2, <2>1 DEF ShedCt, Run, Invocation
<1>6. /\ new \in ShedCt /\ Sound(new, Youngest)
      /\ Opens(Ct) => Opens(new)
  BY <1>2, <1>5, CodeCt
<1>7. StepOK(run', new)
  <2>1. Blank(run', new)
    BY <1>2, <1>3, <1>4 DEF Blank, ShedCt
  <2> QED BY <1>3, <1>4, <2>1 DEF StepOK
<1>8. Youngest' = Youngest
  BY <1>1, <1>3, SameAge DEF Clone, Early
<1>9. guest' = [guest EXCEPT ![run.ct] = new]
  BY DEF Clone, Put
<1>10. state' \in Vmids \cup {None} /\ runs' = runs /\ lost' = lost
  BY <1>2 DEF Clone, TypeOK
<1>11. run'.step \in InsideCt /\ Youngest =< Youngest'
  BY <1>2, <1>3, <1>8 DEF InsideCt
<1> HIDE DEF new
<1> QED
  BY <1>1, <1>2, <1>3, <1>6, <1>7, <1>8, <1>9, <1>10, <1>11, MoveKeeps

\* The .env of a fresh CT, or of one that has neither an .env nor a copy
LEMMA FreshEnvIs ==
  ASSUME run \in Run, runs \in Secret
  PROVE  /\ FreshEnv \in Env /\ FreshEnv # None /\ FreshEnv.db = runs
         /\ FreshEnv.op = Ensured(run.op) /\ FreshEnv.root = Ensured(run.root)
         /\ FreshEnv.ref = run.inv.ref
         /\ Ensured(run.op) \in Secret /\ Ensured(run.root) \in Secret
<1>1. Ensured(run.op) \in Secret /\ Ensured(run.root) \in Secret
  BY DEF Run, Ensured
<1>2. run.inv.ref \in Versions
  BY DEF Run, Invocation
<1>3. FreshEnv \in Env
  BY <1>1, <1>2 DEF FreshEnv, Env
<1> QED BY <1>1, <1>3, InstallerAssumption DEF FreshEnv

LEMMA WriteEnvKeeps == InstallInv /\ WriteEnv => InstallInv'
<1> SUFFICES ASSUME InstallInv, WriteEnv PROVE InstallInv'
  OBVIOUS
<1> DEFINE e   == FreshEnv
           new == [Ct EXCEPT !.env = e]
<1>1. run # None /\ run.step = "env" /\ run.step \in InsideCt
  BY DEF WriteEnv, InCt, At, InsideCt
<1>2. /\ run \in Run /\ run.ct \in Shed /\ StepOK(run, Ct) /\ Ct \in ShedCt
      /\ Sound(Ct, Youngest) /\ Youngest \in Nat /\ TypeOK /\ runs \in Secret
      /\ runs \in Nat
  BY <1>1, Inside
<1>3. /\ run' \in Run /\ run'.step = "compose" /\ run' # None /\ run'.update = run.update
      /\ run'.ct = run.ct /\ run'.inv = run.inv /\ run'.op = run.op /\ run'.root = run.root
  BY <1>2, GoesTo DEF WriteEnv, Steps
<1>4. Blank(run, Ct) /\ ~run.update
  BY <1>1, <1>2 DEF StepOK
<1>5. /\ e \in Env /\ e # None /\ e.db = runs /\ e.op = run.op /\ e.root = run.root
      /\ e.ref = run.inv.ref
  BY <1>2, <1>4, FreshEnvIs DEF Blank, Ensured
<1>6. Youngest = runs /\ Youngest' = runs + 1
  BY <1>1, <1>3 DEF Youngest, Early, WriteEnv
<1>7. guest' = [guest EXCEPT ![run.ct] = new]
  BY DEF WriteEnv, Put
<1>0. new = [Ct EXCEPT !.env = e]
  OBVIOUS
<1> HIDE DEF e, new
<1>8. /\ new \in ShedCt /\ Sound(new, runs + 1) /\ new.env = e /\ new.tmp = None
      /\ Opens(Ct) => Opens(new)
  <2>1. Ct.env = None /\ Ct.tmp = None /\ e.root = Ct.root /\ Ct.notes = None
    BY <1>4, <1>5 DEF Blank
  <2>2. Sound(Ct, runs)
    BY <1>2, <1>6
  <2>3. TakesEnv(Ct, new, e)
    BY <1>0, <2>1 DEF TakesEnv
  <2> QED BY <1>2, <1>5, <2>1, <2>2, <2>3, NewEnvCt
<1>9. StepOK(run', new)
  BY <1>3, <1>4, <1>5, <1>8 DEF StepOK
<1>10. state' \in Vmids \cup {None} /\ runs' = runs /\ lost' = lost
  BY <1>2 DEF WriteEnv, TypeOK
<1>11. run'.step \in InsideCt /\ Youngest =< Youngest'
  BY <1>2, <1>3, <1>6 DEF InsideCt
<1> QED
  BY <1>1, <1>2, <1>3, <1>6, <1>7, <1>8, <1>9, <1>10, <1>11, MoveKeeps

\* load_operator_from_ct, and on to another step
LEMMA LoadsAndGoes ==
  ASSUME run \in Run, NEW ct \in ShedCt, NEW step \in Steps,
         run' = [Loaded(run, ct) EXCEPT !.step = step]
  PROVE  /\ run' \in Run /\ run'.step = step /\ run' # None
         /\ run'.update = run.update /\ run'.ct = run.ct /\ run'.inv = run.inv
         /\ ct.env # None => run'.op = ct.env.op /\ run'.root = ct.env.root
<1>1. CASE ct.env = None
  <2>1. GoTo(step)
    BY <1>1 DEF Loaded, GoTo
  <2> QED BY <1>1, <2>1, GoesTo
<1>2. CASE ct.env # None
  <2>1. ct.env.op \in Secret \cup {None} /\ ct.env.root \in Secret \cup {None}
    BY <1>2, CtFields DEF Env
  <2>2. GoWith(step, ct.env.op, ct.env.root)
    BY <1>2 DEF Loaded, GoWith, Run
  <2> QED BY <2>1, <2>2, GoesWith
<1> QED BY <1>1, <1>2

\* A CT with neither an .env nor a database has nothing to disagree about.
Bare(ct) == /\ ct.env = None /\ ct.tmp = None /\ ct.box = None /\ ct.volume = None
            /\ ct.notes = None

LEMMA BareCt ==
  ASSUME NEW ct \in ShedCt, Bare(ct)
  PROVE  Opens(ct) /\ \A n \in Nat : Sound(ct, n)
BY DEF Bare, Sound, CtOK, PairsAgree, RootAgrees, RootKept, OpNoted, DbsBelow, Copies, Opens

\* The run makes a Shed CT of what is at its VMID: nothing, or somebody else's CT.
LEMMA NewCtKeeps ==
  ASSUME InstallInv, run # None, run.step \in Early, run.ct \in Vmids, run.ct \notin Shed,
         NEW new \in ShedCt, Bare(new), guest' = [guest EXCEPT ![run.ct] = new],
         run' \in Run \cup {None},
         run' # None =>
            run'.ct = run.ct /\ run'.step \in InsideCt /\ StepOK(run', new),
         state' = state, runs' = runs, lost' = lost
  PROVE  InstallInv'
<1>0. TypeOK /\ \A w \in Shed : Sound(guest[w], Youngest)
  BY DEF InstallInv
<1>1. /\ guest'[run.ct] = new
      /\ guest' \in [Vmids -> ShedCt \cup Foreign \cup {None}]
      /\ \A w \in Vmids : w # run.ct => guest'[w] = guest[w]
  BY <1>0 DEF TypeOK
<1>2. Shed' = Shed \cup {run.ct} /\ \A w \in Shed : guest[w] \in ShedCt /\ w # run.ct
                                                     /\ guest'[w] = guest[w]
  <2>1. new \notin Foreign \cup {None}
    BY InstallerAssumption
  <2> QED BY <1>0, <1>1, <2>1 DEF Shed, TypeOK
<1>3. TypeOK'
  BY <1>0, <1>1 DEF TypeOK
<1>4. RunOK'
  <2>1. run' # None => run'.step \notin {"delete", "fresh", "update"}
    BY DEF InsideCt
  <2> QED BY <1>1, <1>2, <2>1 DEF RunOK
<1>5. Youngest \in Nat /\ Youngest' \in Nat /\ Youngest =< Youngest'
  <2>1. Youngest = runs
    BY DEF Youngest
  <2> QED BY <1>0, <1>3, <2>1, YoungestIs, YoungestNext
<1>6. \A w \in Shed' : Sound(guest'[w], Youngest')
  BY <1>0, <1>1, <1>2, <1>5, BareCt, Older2Younger
<1>7. \A w \in Shed' \ lost' : Opens(guest'[w])
  BY <1>1, <1>2, BareCt DEF InstallInv
<1> QED BY <1>3, <1>4, <1>6, <1>7 DEF InstallInv

\* A run that updates begins with a Shed CT, or makes one of somebody else's CT.
LEMMA ClaimedIs ==
  ASSUME TypeOK
  PROVE  Claimed \in ShedCt /\ Bare([Claimed EXCEPT !.up = TRUE])
<1>1. 0 \in Secret
  BY InstallerAssumption DEF Secret
<1>2. Claimed \in ShedCt
  BY <1>1 DEF Claimed, ShedCt
<1> QED BY <1>2 DEF Claimed, Bare

LEMMA BeginUpdateKeeps == InstallInv /\ BeginUpdate => InstallInv'
<1> SUFFICES ASSUME InstallInv, BeginUpdate PROVE InstallInv'
  OBVIOUS
<1>1. run # None /\ run.step = "update" /\ run.update
  BY DEF BeginUpdate, At, InstallInv, RunOK
<1>2. TypeOK /\ run \in Run /\ run.ct \in Vmids /\ Youngest \in Nat
  BY <1>1, YoungestIs DEF InstallInv, TypeOK, Run
<1>3. PICK ct \in ShedCt :
        /\ run.ct \in Shed => ct = Ct
        /\ run.ct \notin Shed => ct = Claimed
        /\ Put([ct EXCEPT !.up = TRUE])
        /\ run' = [Loaded(run, ct) EXCEPT !.step = "backup"]
  <2>1. run.ct \in Shed => Ct \in ShedCt
    BY <1>2 DEF TypeOK, Shed, Ct
  <2> QED BY <1>2, <2>1, ClaimedIs DEF BeginUpdate
<1>4. run' \in Run /\ run'.step = "backup" /\ run' # None /\ run'.update /\ run'.ct = run.ct
  BY <1>1, <1>2, <1>3, LoadsAndGoes DEF Steps
<1> DEFINE new == [ct EXCEPT !.up = TRUE]
<1>5. guest' = [guest EXCEPT ![run.ct] = new]
  BY <1>3 DEF Put
<1>6. StepOK(run', new) /\ run'.step \in InsideCt
  BY <1>4 DEF StepOK, InsideCt
<1>7. state' = state /\ runs' = runs /\ lost' = lost
  BY DEF BeginUpdate
<1>8. CASE run.ct \in Shed
  <2>1. Sound(Ct, Youngest) /\ run.inv.ref \in Versions /\ ct = Ct
    BY <1>2, <1>3, <1>8 DEF InstallInv, Ct, Run, Invocation
  <2>2. new \in ShedCt /\ Sound(new, Youngest) /\ (Opens(Ct) => Opens(new))
    BY <1>2, <2>1, CodeCt
  <2>3. Youngest' = Youngest /\ Youngest =< Youngest'
    BY <1>1, <1>2, <1>4, <1>7, SameAge DEF Early
  <2>4. state' \in Vmids \cup {None}
    BY <1>2, <1>7 DEF TypeOK
  <2> HIDE DEF new
  <2> QED BY <1>1, <1>4, <1>5, <1>6, <1>7, <1>8, <2>2, <2>3, <2>4, MoveKeeps
<1>9. CASE run.ct \notin Shed
  <2>1. new \in ShedCt
    BY DEF ShedCt
  <2>2. Bare(new)
    BY <1>2, <1>3, <1>9, ClaimedIs
  <2>3. run.step \in Early
    BY <1>1 DEF Early
  <2> HIDE DEF new
  <2> QED BY <1>1, <1>2, <1>4, <1>5, <1>6, <1>7, <1>9, <2>1, <2>2, <2>3,
         NewCtKeeps
<1> QED BY <1>8, <1>9

LEMMA BackupKeeps == InstallInv /\ Backup => InstallInv'
<1> SUFFICES ASSUME InstallInv, Backup PROVE InstallInv'
  OBVIOUS
<1> DEFINE new == [Ct EXCEPT !.tmp = IF Ct.env # None THEN Ct.env ELSE Ct.tmp]
<1>1. run # None /\ run.step = "backup" /\ run.step \in InsideCt
  BY DEF Backup, InCt, At, InsideCt
<1>2. /\ run \in Run /\ run.ct \in Shed /\ StepOK(run, Ct) /\ Ct \in ShedCt
      /\ Sound(Ct, Youngest) /\ Youngest \in Nat /\ TypeOK
  BY <1>1, Inside
<1>3. /\ run' \in Run /\ run'.step = "remove" /\ run' # None /\ run'.update = run.update
      /\ run'.ct = run.ct
  BY <1>2, GoesTo DEF Backup, Steps
<1>4. guest' = [guest EXCEPT ![run.ct] = new]
  BY DEF Backup, Put
<1>5. /\ new \in ShedCt /\ Sound(new, Youngest) /\ (new.env # None => new.tmp = new.env)
      /\ Opens(Ct) => Opens(new)
  BY <1>2, BackupCt
<1> HIDE DEF new
<1>6. StepOK(run', new)
  BY <1>1, <1>2, <1>3, <1>5 DEF StepOK
<1>7. Youngest' = Youngest
  BY <1>1, <1>3, SameAge DEF Backup, Early
<1>8. state' \in Vmids \cup {None} /\ runs' = runs /\ lost' = lost
  BY <1>2 DEF Backup, TypeOK
<1>9. run'.step \in InsideCt /\ Youngest =< Youngest'
  BY <1>2, <1>3, <1>7 DEF InsideCt
<1> QED
  BY <1>1, <1>2, <1>3, <1>4, <1>5, <1>6, <1>7, <1>8, <1>9, MoveKeeps

LEMMA RemoveKeeps == InstallInv /\ Remove => InstallInv'
<1> SUFFICES ASSUME InstallInv, Remove PROVE InstallInv'
  OBVIOUS
<1> DEFINE new == [Ct EXCEPT !.code = None, !.env = None]
<1>1. run # None /\ run.step = "remove" /\ run.step \in InsideCt
  BY DEF Remove, InCt, At, InsideCt
<1>2. /\ run \in Run /\ run.ct \in Shed /\ StepOK(run, Ct) /\ Ct \in ShedCt
      /\ Sound(Ct, Youngest) /\ Youngest \in Nat /\ TypeOK
  BY <1>1, Inside
<1>3. /\ run' \in Run /\ run'.step = "reclone" /\ run' # None /\ run'.update = run.update
      /\ run'.ct = run.ct
  BY <1>2, GoesTo DEF Remove, Steps
<1>4. guest' = [guest EXCEPT ![run.ct] = new]
  BY DEF Remove, Put
<1>5. /\ new \in ShedCt /\ Sound(new, Youngest) /\ new.env = None
      /\ Opens(Ct) => Opens(new)
  <2>1. Ct.env # None => Ct.tmp = Ct.env
    BY <1>1, <1>2 DEF StepOK
  <2> QED BY <1>2, <2>1, RemoveCt
<1> HIDE DEF new
<1>6. StepOK(run', new)
  BY <1>1, <1>2, <1>3, <1>5 DEF StepOK
<1>7. Youngest' = Youngest
  BY <1>1, <1>3, SameAge DEF Remove, Early
<1>8. state' \in Vmids \cup {None} /\ runs' = runs /\ lost' = lost
  BY <1>2 DEF Remove, TypeOK
<1>9. run'.step \in InsideCt /\ Youngest =< Youngest'
  BY <1>2, <1>3, <1>7 DEF InsideCt
<1> QED
  BY <1>1, <1>2, <1>3, <1>4, <1>5, <1>6, <1>7, <1>8, <1>9, MoveKeeps

LEMMA CloneAgainKeeps == InstallInv /\ CloneAgain => InstallInv'
<1> SUFFICES ASSUME InstallInv, CloneAgain PROVE InstallInv'
  OBVIOUS
<1> DEFINE new == [Ct EXCEPT !.code = run.inv.ref]
<1>1. run # None /\ run.step = "reclone" /\ run.step \in InsideCt
  BY DEF CloneAgain, InCt, At, InsideCt
<1>2. /\ run \in Run /\ run.ct \in Shed /\ StepOK(run, Ct) /\ Ct \in ShedCt
      /\ Sound(Ct, Youngest) /\ Youngest \in Nat /\ TypeOK
  BY <1>1, Inside
<1>3. /\ run' \in Run /\ run'.step = "restore" /\ run' # None /\ run'.update = run.update
      /\ run'.ct = run.ct
  BY <1>2, GoesTo DEF CloneAgain, Steps
<1>4. guest' = [guest EXCEPT ![run.ct] = new]
  BY DEF CloneAgain, Put
<1>5. /\ new \in ShedCt /\ Sound(new, Youngest) /\ new.env = Ct.env
      /\ Opens(Ct) => Opens(new)
  <2>1. run.inv.ref \in Versions
    BY <1>2 DEF Run, Invocation
  <2> QED BY <1>2, <2>1, CodeCt
<1> HIDE DEF new
<1>6. StepOK(run', new)
  BY <1>1, <1>2, <1>3, <1>5 DEF StepOK
<1>7. Youngest' = Youngest
  BY <1>1, <1>3, SameAge DEF CloneAgain, Early
<1>8. state' \in Vmids \cup {None} /\ runs' = runs /\ lost' = lost
  BY <1>2 DEF CloneAgain, TypeOK
<1>9. run'.step \in InsideCt /\ Youngest =< Youngest'
  BY <1>2, <1>3, <1>7 DEF InsideCt
<1> QED
  BY <1>1, <1>2, <1>3, <1>4, <1>5, <1>6, <1>7, <1>8, <1>9, MoveKeeps

LEMMA RestoreKeeps == InstallInv /\ Restore => InstallInv'
<1> SUFFICES ASSUME InstallInv, Restore PROVE InstallInv'
  OBVIOUS
<1> DEFINE new == [Ct EXCEPT !.env = Restored(Ct)]
<1>1. run # None /\ run.step = "restore" /\ run.step \in InsideCt
  BY DEF Restore, InCt, At, InsideCt
<1>2. /\ run \in Run /\ run.ct \in Shed /\ StepOK(run, Ct) /\ Ct \in ShedCt
      /\ Sound(Ct, Youngest) /\ Youngest \in Nat /\ TypeOK
  BY <1>1, Inside
<1>3. /\ run' \in Run /\ run'.step = "upsert" /\ run' # None /\ run'.update = run.update
      /\ run'.ct = run.ct
  BY <1>2, GoesTo DEF Restore, Steps
<1>4. guest' = [guest EXCEPT ![run.ct] = new]
  BY DEF Restore, Put
<1>5. /\ new \in ShedCt /\ Sound(new, Youngest)
      /\ (new.tmp # None => new.env # None) /\ SameRoot(new)
      /\ Opens(Ct) => Opens(new)
  <2>1. Ct.env = None
    BY <1>1, <1>2 DEF StepOK
  <2> QED BY <1>2, <2>1, RestoreCt
<1> HIDE DEF new
<1>6. StepOK(run', new)
  BY <1>1, <1>2, <1>3, <1>5 DEF StepOK
<1>7. Youngest' = Youngest
  BY <1>1, <1>3, SameAge DEF Restore, Early
<1>8. state' \in Vmids \cup {None} /\ runs' = runs /\ lost' = lost
  BY <1>2 DEF Restore, TypeOK
<1>9. run'.step \in InsideCt /\ Youngest =< Youngest'
  BY <1>2, <1>3, <1>7 DEF InsideCt
<1> QED
  BY <1>1, <1>2, <1>3, <1>4, <1>5, <1>6, <1>7, <1>8, <1>9, MoveKeeps

LEMMA UpsertedIs ==
  ASSUME run \in Run, NEW env \in Env
  PROVE  /\ Upserted(env) \in Env /\ Upserted(env).db = env.db /\ Upserted(env).op = env.op
         /\ Upserted(env).root = env.root /\ Upserted(env).ref = run.inv.ref
<1>1. run.inv.ref \in Versions
  BY DEF Run, Invocation
<1> QED BY <1>1 DEF Upserted, Env

LEMMA UpsertGoes ==
  ASSUME run \in Run, runs \in Secret, Upsert
  PROVE  /\ run' \in Run /\ run'.step = "compose" /\ run' # None
         /\ run'.update = run.update /\ run'.ct = run.ct /\ run'.inv = run.inv
<1>1. /\ Ensured(run.op) \in Secret /\ Ensured(run.root) \in Secret
      /\ run.op \in Secret \cup {None} /\ run.root \in Secret \cup {None}
  BY FreshEnvIs DEF Run
<1>2. GoWith("compose", IF Ct.env = None THEN Ensured(run.op) ELSE run.op,
                        IF Ct.env = None THEN Ensured(run.root) ELSE run.root)
  BY DEF Upsert, GoWith
<1>3. CASE Ct.env = None
  <2>1. GoWith("compose", Ensured(run.op), Ensured(run.root)) /\ "compose" \in Steps
    BY <1>2, <1>3 DEF Steps
  <2> QED BY <1>1, <2>1, GoesWith
<1>4. CASE Ct.env # None
  <2>1. GoWith("compose", run.op, run.root) /\ "compose" \in Steps
    BY <1>2, <1>4 DEF Steps
  <2> QED BY <1>1, <2>1, GoesWith
<1> QED BY <1>3, <1>4

LEMMA UpsertKeeps == InstallInv /\ Upsert => InstallInv'
<1> SUFFICES ASSUME InstallInv, Upsert PROVE InstallInv'
  OBVIOUS
<1>1. run # None /\ run.step = "upsert" /\ run.step \in InsideCt
  BY DEF Upsert, InCt, At, InsideCt
<1>2. /\ run \in Run /\ run.ct \in Shed /\ StepOK(run, Ct) /\ Ct \in ShedCt
      /\ Sound(Ct, Youngest) /\ Youngest \in Nat /\ TypeOK /\ runs \in Secret /\ runs \in Nat
  BY <1>1, Inside
<1>3. /\ run' \in Run /\ run'.step = "compose" /\ run' # None /\ run'.update = run.update
      /\ run'.ct = run.ct /\ run'.inv = run.inv
  BY <1>2, UpsertGoes
<1>4. run.update /\ (Ct.tmp # None => Ct.env # None) /\ SameRoot(Ct)
  BY <1>1, <1>2 DEF StepOK
<1>5. Youngest = runs /\ Youngest' = runs + 1
  BY <1>1, <1>3 DEF Youngest, Early, Upsert
<1>6. PICK new \in ShedCt :
        /\ guest' = [guest EXCEPT ![run.ct] = new]
        /\ Sound(new, runs + 1) /\ new.env # None /\ new.env.ref = run.inv.ref
        /\ SameRoot(new) /\ (Opens(Ct) => Opens(new))
  <2>1. CASE Ct.env = None
    <3> DEFINE e   == Upserted(FreshEnv)
               new == [Ct EXCEPT !.env = e, !.made = TRUE]
    <3>1. e \in Env /\ e.db = runs /\ e.ref = run.inv.ref
      BY <1>2, FreshEnvIs, UpsertedIs
    <3>2. TakesEnv(Ct, new, e) /\ Ct.tmp = None
      BY <1>4, <2>1 DEF TakesEnv
    <3>3. guest' = [guest EXCEPT ![run.ct] = new]
      BY <2>1 DEF Upsert, Put
    <3> HIDE DEF e, new
    <3>4. Sound(Ct, runs)
      BY <1>2, <1>5
    <3>5. /\ new \in ShedCt /\ Sound(new, runs + 1) /\ new.env = e /\ new.tmp = None
          /\ Opens(Ct) => Opens(new)
      BY <1>2, <2>1, <3>1, <3>2, <3>4, NewEnvCt
    <3>6. e # None
      BY <3>1, InstallerAssumption
    <3>7. SameRoot(new)
      BY <3>5 DEF SameRoot
    <3> QED BY <3>1, <3>3, <3>5, <3>6, <3>7
  <2>2. CASE Ct.env # None
    <3> DEFINE e   == Upserted(Ct.env)
               new == [Ct EXCEPT !.env = e]
    <3>1. Ct.env \in Env
      BY <1>2, <2>2, CtFields
    <3>2. /\ e \in Env /\ e.db = Ct.env.db /\ e.op = Ct.env.op /\ e.root = Ct.env.root
          /\ e.ref = run.inv.ref
      BY <1>2, <3>1, UpsertedIs
    <3>3. guest' = [guest EXCEPT ![run.ct] = new] /\ new = [Ct EXCEPT !.env = e]
      BY <2>2 DEF Upsert, Put
    <3> HIDE DEF e, new
    <3>4. Sound(Ct, runs)
      BY <1>2, <1>5
    <3>5. /\ new \in ShedCt /\ Sound(new, runs) /\ new.env = e /\ new.tmp = Ct.tmp
          /\ Opens(Ct) => Opens(new)
      BY <1>2, <2>2, <3>2, <3>3, <3>4, EditCt
    <3>6. Sound(new, runs + 1)
      <4>1. runs + 1 \in Nat /\ runs =< runs + 1
        BY <1>2
      <4> QED BY <1>2, <3>5, <4>1, Older2Younger
    <3>7. e # None
      BY <3>2, InstallerAssumption
    <3>8. SameRoot(new)
      BY <1>4, <3>2, <3>5 DEF SameRoot
    <3> QED BY <3>2, <3>3, <3>5, <3>6, <3>7, <3>8
  <2> QED BY <2>1, <2>2
<1>7. StepOK(run', new)
  BY <1>3, <1>4, <1>6 DEF StepOK
<1>8. state' \in Vmids \cup {None} /\ runs' = runs /\ lost' = lost
  BY <1>2 DEF Upsert, TypeOK
<1>9. run'.step \in InsideCt /\ Youngest =< Youngest'
  BY <1>2, <1>3, <1>5 DEF InsideCt
<1> QED
  BY <1>1, <1>2, <1>3, <1>5, <1>6, <1>7, <1>8, <1>9, MoveKeeps

LEMMA ComposeUpKeeps == InstallInv /\ ComposeUp => InstallInv'
<1> SUFFICES ASSUME InstallInv, ComposeUp PROVE InstallInv'
  OBVIOUS
<1> DEFINE new  == [Ct EXCEPT !.box = Ct.env]
           next == IF run.update THEN "reload" ELSE "wait"
<1>1. run # None /\ run.step = "compose" /\ run.step \in InsideCt
  BY DEF ComposeUp, InCt, At, InsideCt
<1>2. /\ run \in Run /\ run.ct \in Shed /\ StepOK(run, Ct) /\ Ct \in ShedCt
      /\ Sound(Ct, Youngest) /\ Youngest \in Nat /\ TypeOK
  BY <1>1, Inside
<1>3. GoTo(next) /\ next \in Steps /\ next \notin Early /\ next \in InsideCt
  BY DEF ComposeUp, Steps, Early, InsideCt
<1>4. guest' = [guest EXCEPT ![run.ct] = new]
  BY DEF ComposeUp, Put
<1>5. /\ Ct.env # None /\ Ct.env.ref = run.inv.ref
      /\ run.update => SameRoot(Ct)
      /\ ~run.update => run.op = Ct.env.op /\ run.root = Ct.env.root
  BY <1>1, <1>2 DEF StepOK
<1>6. /\ new \in ShedCt /\ Sound(new, Youngest) /\ new.env = Ct.env
      /\ new.tmp = Ct.tmp /\ new.box = Ct.env /\ (Opens(Ct) => Opens(new))
  BY <1>2, <1>5, ComposeCt
<1>7. next = IF run.update THEN "reload" ELSE "wait"
  OBVIOUS
<1> HIDE DEF new, next
<1>8. /\ run' \in Run /\ run'.step = next /\ run' # None /\ run'.update = run.update
      /\ run'.ct = run.ct /\ run'.inv = run.inv /\ run'.op = run.op /\ run'.root = run.root
  BY <1>2, <1>3, GoesTo
<1>9. StepOK(run', new)
  <2>1. Runs(run', new) /\ new.env # None /\ new.env.ref = run'.inv.ref
    BY <1>5, <1>6, <1>8 DEF Runs
  <2>2. CASE run.update
    <3>1. run'.step = "reload" /\ SameRoot(new) /\ run'.update
      BY <1>5, <1>6, <1>7, <1>8, <2>2 DEF SameRoot
    <3> QED BY <2>1, <3>1 DEF StepOK
  <2>3. CASE ~run.update
    <3>1. run'.step = "wait" /\ Knows(run', new) /\ run'.root = new.env.root
      BY <1>5, <1>6, <1>7, <1>8, <2>1, <2>3 DEF Knows
    <3> QED BY <3>1 DEF StepOK
  <2> QED BY <2>2, <2>3
<1>10. Youngest' = Youngest
  <2>1. run.step \notin Early
    BY <1>1 DEF Early
  <2> QED BY <1>1, <1>3, <1>8, <2>1, SameAge DEF ComposeUp
<1>11. state' \in Vmids \cup {None} /\ runs' = runs /\ lost' = lost
  BY <1>2 DEF ComposeUp, TypeOK
<1>12. run'.step \in InsideCt /\ Youngest =< Youngest'
  BY <1>2, <1>3, <1>8, <1>10
<1> QED
  BY <1>1, <1>2, <1>4, <1>6, <1>8, <1>9, <1>10, <1>11, <1>12, MoveKeeps

LEMMA ReloadKeeps == InstallInv /\ Reload => InstallInv'
<1> SUFFICES ASSUME InstallInv, Reload PROVE InstallInv'
  OBVIOUS
<1>1. run # None /\ run.step = "reload" /\ run.step \in InsideCt
  BY DEF Reload, InCt, At, InsideCt
<1>2. /\ run \in Run /\ run.ct \in Shed /\ StepOK(run, Ct) /\ Ct \in ShedCt
      /\ Sound(Ct, Youngest) /\ Youngest \in Nat /\ TypeOK /\ runs \in Secret
  BY <1>1, Inside
<1>3. /\ Ct.env # None /\ Ct.env.ref = run.inv.ref /\ Runs(run, Ct) /\ SameRoot(Ct)
      /\ run.update
  BY <1>1, <1>2 DEF StepOK
<1>4. Loaded(run, Ct) = [run EXCEPT !.op = Ct.env.op, !.root = Ct.env.root]
  BY <1>3 DEF Loaded
<1>5. Ct.env.op \in Secret /\ Ct.env.root \in Secret \cup {None}
      /\ Loaded(run, Ct).root = Ct.env.root
  BY <1>2, <1>3, <1>4, CtFields DEF Env, Run
<1>6. /\ state' \in Vmids \cup {None} /\ runs' = runs /\ lost' = lost
      /\ run.step \notin Early
  BY <1>1, <1>2 DEF Reload, TypeOK, Early
<1>7. CASE Ct.env.root # None
  <2>1. run' = [Loaded(run, Ct) EXCEPT !.step = "wait"] /\ guest' = guest
    BY <1>5, <1>7 DEF Reload
  <2>2. /\ run' \in Run /\ run'.step = "wait" /\ run' # None
        /\ run'.update = run.update /\ run'.ct = run.ct /\ run'.inv = run.inv
        /\ run'.op = Ct.env.op /\ run'.root = Ct.env.root
    BY <1>2, <1>3, <2>1, LoadsAndGoes DEF Steps
  <2>3. guest' = [guest EXCEPT ![run.ct] = Ct]
    BY <1>2, <2>1 DEF TypeOK, Ct
  <2>4. StepOK(run', Ct)
    <3>1. Knows(run', Ct)
      BY <1>3, <2>2 DEF Knows, Runs
    <3> QED BY <2>2, <3>1 DEF StepOK
  <2>5. Youngest' = Youngest
    <3>1. run'.step \notin Early
      BY <2>2 DEF Early
    <3> QED BY <1>1, <1>6, <2>2, <3>1, SameAge
  <2>6. run'.step \in InsideCt /\ Youngest =< Youngest'
    BY <1>2, <2>2, <2>5 DEF InsideCt
  <2> QED BY <1>1, <1>2, <1>6, <2>2, <2>3, <2>4, <2>5, <2>6, MoveKeeps
<1>8. CASE Ct.env.root = None
  <2> DEFINE new == [Ct EXCEPT !.root = runs]
  <2>1. /\ run' = [Loaded(run, Ct) EXCEPT !.step = "persist", !.root = runs]
        /\ guest' = [guest EXCEPT ![run.ct] = new]
    BY <1>5, <1>8 DEF Reload, Put, Chpasswd
  <2>2. /\ run' \in Run /\ run'.step = "persist" /\ run' # None
        /\ run'.update = run.update /\ run'.ct = run.ct /\ run'.inv = run.inv
        /\ run'.op = Ct.env.op /\ run'.root = runs
    <3>1. GoWith("persist", Ct.env.op, runs)
      BY <1>2, <1>4, <2>1 DEF GoWith, Run
    <3> QED BY <1>2, <1>5, <3>1, GoesWith DEF Steps
  <2>3. /\ new \in ShedCt /\ Sound(new, Youngest) /\ new.env = Ct.env
        /\ new.tmp = Ct.tmp /\ new.box = Ct.box /\ new.root = runs
        /\ Opens(Ct) => Opens(new)
    BY <1>2, <1>3, <1>8, ChpasswdCt
  <2> HIDE DEF new
  <2>4. StepOK(run', new)
    <3>1. Knows(run', new)
      BY <1>3, <2>2, <2>3 DEF Knows, Runs
    <3>2. runs # None
      BY <1>2, SecretIs
    <3> QED BY <1>3, <2>2, <2>3, <3>1, <3>2 DEF StepOK
  <2>5. Youngest' = Youngest
    <3>1. run'.step \notin Early
      BY <2>2 DEF Early
    <3> QED BY <1>1, <1>6, <2>2, <3>1, SameAge
  <2>6. run'.step \in InsideCt /\ Youngest =< Youngest'
    BY <1>2, <2>2, <2>5 DEF InsideCt
  <2> QED BY <1>1, <1>2, <1>6, <2>1, <2>2, <2>3, <2>4, <2>5, <2>6, MoveKeeps
<1> QED BY <1>7, <1>8

LEMMA PersistKeeps == InstallInv /\ Persist => InstallInv'
<1> SUFFICES ASSUME InstallInv, Persist PROVE InstallInv'
  OBVIOUS
<1> DEFINE e   == [Ct.env EXCEPT !.root = run.root]
           new == [Ct EXCEPT !.env = e]
<1>1. run # None /\ run.step = "persist" /\ run.step \in InsideCt
  BY DEF Persist, InCt, At, InsideCt
<1>2. /\ run \in Run /\ run.ct \in Shed /\ StepOK(run, Ct) /\ Ct \in ShedCt
      /\ Sound(Ct, Youngest) /\ Youngest \in Nat /\ TypeOK
  BY <1>1, Inside
<1>3. Knows(run, Ct) /\ run.root # None /\ Ct.root = run.root /\ Ct.env # None
  BY <1>1, <1>2 DEF StepOK, Knows
<1>4. guest' = [guest EXCEPT ![run.ct] = new] /\ new = [Ct EXCEPT !.env = e]
  BY <1>2, <1>3 DEF Persist, Put, ShedCt
<1>5. /\ e \in Env /\ e.db = Ct.env.db /\ e.op = Ct.env.op /\ e.ref = Ct.env.ref
      /\ e.root = run.root
  BY <1>2, <1>3, CtFields DEF Env, Run
<1> HIDE DEF e, new
<1>6. /\ new \in ShedCt /\ Sound(new, Youngest) /\ new.env = e
      /\ new.tmp = Ct.tmp /\ new.box = Ct.box /\ (Opens(Ct) => Opens(new))
  BY <1>2, <1>3, <1>4, <1>5, EditCt
<1>7. /\ run' \in Run /\ run'.step = "wait" /\ run' # None /\ run'.update = run.update
      /\ run'.ct = run.ct /\ run'.inv = run.inv /\ run'.op = run.op /\ run'.root = run.root
  BY <1>2, GoesTo DEF Persist, Steps
<1>8. StepOK(run', new)
  <2>1. e # None
    BY <1>5, InstallerAssumption
  <2>2. Knows(run', new)
    BY <1>3, <1>5, <1>6, <1>7, <2>1 DEF Knows, Runs
  <2> QED BY <1>5, <1>6, <1>7, <2>2 DEF StepOK
<1>9. state' \in Vmids \cup {None} /\ runs' = runs /\ lost' = lost
  BY <1>2 DEF Persist, TypeOK
<1>10. Youngest' = Youngest
  BY <1>1, <1>7, <1>9, SameAge DEF Early
<1>11. run'.step \in InsideCt /\ Youngest =< Youngest'
  BY <1>2, <1>7, <1>10 DEF InsideCt
<1> QED
  BY <1>1, <1>2, <1>4, <1>6, <1>7, <1>8, <1>9, <1>10, <1>11, MoveKeeps

LEMMA FinishKeeps == InstallInv /\ Finish => InstallInv'
<1> SUFFICES ASSUME InstallInv, Finish PROVE InstallInv'
  OBVIOUS
<1> DEFINE new == [Ct EXCEPT !.notes = Summary(run)]
<1>1. run # None /\ run.step = "wait" /\ run.step \in InsideCt
  BY DEF Finish, InCt, At, InsideCt
<1>2. /\ run \in Run /\ run.ct \in Shed /\ StepOK(run, Ct) /\ Ct \in ShedCt
      /\ Sound(Ct, Youngest) /\ Youngest \in Nat /\ TypeOK /\ run.ct \in Vmids
  BY <1>1, Inside
<1>3. Knows(run, Ct) /\ run.root = Ct.env.root
  BY <1>1, <1>2 DEF StepOK
<1>4. guest' = [guest EXCEPT ![run.ct] = new]
  BY DEF Finish, Put
<1>5. new \in ShedCt /\ Sound(new, Youngest) /\ (Opens(Ct) => Opens(new))
  BY <1>2, <1>3, NotesCt DEF Finish, Summary
<1>6. state' \in Vmids \cup {None} /\ runs' = runs /\ lost' = lost /\ run' = None
  BY <1>2 DEF Finish
<1>7. Youngest' = Youngest
  BY <1>1, <1>6 DEF Youngest, Early
<1>8. Youngest =< Youngest'
  BY <1>2, <1>7
<1> HIDE DEF new
<1> QED BY <1>1, <1>2, <1>4, <1>5, <1>6, <1>7, <1>8, MoveKeeps

LEMMA InterruptKeeps == InstallInv /\ Interrupt => InstallInv'
<1> SUFFICES ASSUME InstallInv, Interrupt PROVE InstallInv'
  OBVIOUS
<1>1. TypeOK /\ Shed' = Shed /\ TypeOK'
  BY DEF InstallInv, Interrupt, TypeOK, Shed
<1>2. RunOK'
  BY DEF Interrupt, RunOK
<1>3. \A v \in Shed' : Sound(guest'[v], Youngest')
  <2>1. Youngest \in Nat /\ Youngest' \in Nat /\ Youngest =< Youngest'
    BY <1>1, YoungestIs, YoungestNext DEF Youngest, Interrupt
  <2>2. \A v \in Shed : guest[v] \in ShedCt /\ Sound(guest[v], Youngest) /\ guest'[v] = guest[v]
    BY <1>1 DEF InstallInv, TypeOK, Shed, Interrupt
  <2> QED BY <1>1, <2>1, <2>2, Older2Younger
<1>4. \A v \in Shed' \ lost' : Opens(guest'[v])
  BY <1>1 DEF InstallInv, Interrupt
<1> QED BY <1>1, <1>2, <1>3, <1>4 DEF InstallInv

LEMMA StartKeeps ==
  ASSUME InstallInv, NEW inv \in Invocation, Start(inv)
  PROVE  InstallInv'
<1> USE DEF InstallInv
<1>1. PICK p \in Plans(inv) :
        run' = [step |-> p.action, update |-> p.action = "update", ct |-> p.ct,
                shown |-> Warning(p), inv |-> inv, op |-> None, root |-> None]
  BY DEF Start
<1>2. /\ p.action \in {"delete", "fresh", "update"} /\ p.ct \in Vmids
      /\ p.action = "delete" => inv.delete /\ p.ct = Inspected /\ Inspected # Abort
      /\ p.action = "fresh" /\ inv.how = "yes" /\ ~inv.delete => Shed = {}
      /\ p.action = "update" /\ p.ct \notin Shed => inv.how = "ask"
  BY PlansAre
<1>3. run' \in Run /\ run' # None
  <2>1. (p.action = "update") \in BOOLEAN
    OBVIOUS
  <2>2. Warning(p) \in Warnings
    BY <1>2 DEF Warning, Warnings
  <2>3. run' \in Run
    BY <1>1, <1>2, <2>1, <2>2 DEF Run
  <2> QED BY <2>3, InstallerAssumption
<1>4. run = None /\ runs' = runs + 1 /\ guest' = guest /\ state' = state /\ lost' = lost
  BY DEF Start
<1>5. runs' \in Secret
  BY <1>4, InstallerAssumption DEF TypeOK, Start, Secret
<1>6. TypeOK' /\ Shed' = Shed
  BY <1>3, <1>4, <1>5 DEF TypeOK, Shed
<1>7. RunOK'
  <2>1. run'.step \notin InsideCt
    BY <1>1, <1>2 DEF InsideCt
  <2>2. run'.step = "update" => run'.update /\ Asked(run')
    BY <1>1, <1>2 DEF Asked, Warning
  <2>3. run'.step \in {"delete", "fresh"} => ~run'.update
    BY <1>1, <1>2
  <2>4. ASSUME run'.step = "delete"
        PROVE  /\ run'.inv.delete /\ run'.shown.action = "delete" /\ run'.ct = run'.shown.ct
               /\ run'.ct \in Shed => run'.shown.at = "shed"
               /\ state \in Shed => state = run'.ct
    BY <1>1, <1>2, <2>4, InspectedState DEF Warning
  <2>5. ASSUME run'.step = "fresh", run'.inv.how = "yes", ~run'.inv.delete
        PROVE  Shed = {}
    BY <1>1, <1>2, <2>5
  <2> QED BY <1>4, <1>6, <2>1, <2>2, <2>3, <2>4, <2>5 DEF RunOK
<1>8. Youngest' = Youngest
  BY <1>1, <1>2, <1>3, <1>4 DEF Youngest, Early
<1> QED BY <1>4, <1>6, <1>7, <1>8

LEMMA DeleteKeeps == InstallInv /\ Delete => InstallInv'
<1> SUFFICES ASSUME InstallInv, Delete PROVE InstallInv'
  OBVIOUS
<1> USE DEF InstallInv
<1>1. /\ run # None /\ run.step = "delete" /\ run \in Run /\ runs' = runs /\ state' = None
      /\ lost' \subseteq lost
  BY DEF Delete, At, TypeOK
<1>2. NextFree(guest') \in Vmids
  BY NextFreeIs DEF Delete
<1>3. /\ run' \in Run /\ run' # None /\ run'.step = "fresh" /\ run'.update = run.update
      /\ run'.inv = run.inv
  <2>1. run' = [run EXCEPT !.step = "fresh", !.ct = NextFree(guest')]
    BY DEF Delete
  <2>2. run' \in Run
    BY <1>1, <1>2, <2>1 DEF Run
  <2> QED BY <1>1, <2>1, <2>2, InstallerAssumption DEF Run
<1>4. /\ guest' \in [Vmids -> ShedCt \cup Foreign \cup {None}] /\ Shed' \subseteq Shed
      /\ \A v \in Shed' : guest'[v] = guest[v]
      /\ \A v \in Shed' \ lost' : v \notin lost
  <2>1. CASE DeleteTarget \in Shed
    <3>1. DeleteTarget \in Vmids /\ guest' = [guest EXCEPT ![DeleteTarget] = None]
      BY <2>1 DEF Delete, Shed
    <3>2. \A v \in Vmids : guest'[v] = IF v = DeleteTarget THEN None ELSE guest[v]
      BY <3>1 DEF TypeOK
    <3>3. Shed' = Shed \ {DeleteTarget}
      BY <3>2 DEF Shed
    <3>4. lost' = lost \ {DeleteTarget}
      BY DEF Delete
    <3> QED BY <3>1, <3>2, <3>3, <3>4 DEF Shed, TypeOK
  <2>2. CASE DeleteTarget \notin Shed
    <3>1. guest' = guest /\ lost' = lost \ {DeleteTarget}
      BY <2>2 DEF Delete
    <3>2. Shed' = Shed
      BY <3>1 DEF Shed
    <3> QED BY <2>2, <3>1, <3>2 DEF TypeOK
  <2> QED BY <2>1, <2>2
<1>5. TypeOK'
  BY <1>1, <1>3, <1>4 DEF TypeOK
<1>6. RunOK'
  <2>1. run'.step \notin InsideCt /\ run'.inv.delete /\ ~run'.update
    BY <1>1, <1>3 DEF InsideCt, RunOK
  <2> QED BY <1>3, <2>1 DEF RunOK
<1>7. Youngest' = Youngest
  BY <1>1, <1>3 DEF Youngest, Early
<1> QED BY <1>4, <1>5, <1>6, <1>7

LEMMA CreateKeeps == InstallInv /\ Create => InstallInv'
<1> SUFFICES ASSUME InstallInv, Create PROVE InstallInv'
  OBVIOUS
<1>1. /\ run # None /\ run.step = "fresh" /\ run \in Run /\ run.ct \in Vmids
      /\ ~run.update /\ guest[run.ct] = None
      /\ runs' = runs /\ state' = state /\ lost' = lost /\ runs \in Secret
  BY DEF Create, At, InstallInv, TypeOK, Run, VmidInUse, RunOK
<1>2. PICK up \in BOOLEAN :
        /\ Put([up |-> up, root |-> runs, code |-> None, env |-> None, tmp |-> None,
                made |-> FALSE, box |-> None, volume |-> None, notes |-> None])
        /\ run' = IF up THEN [run EXCEPT !.step = "clone", !.op = runs, !.root = runs]
                  ELSE None
  BY DEF Create
<1> DEFINE new == [up |-> up, root |-> runs, code |-> None, env |-> None, tmp |-> None,
                   made |-> FALSE, box |-> None, volume |-> None, notes |-> None]
<1>3. /\ new \in ShedCt /\ new.env = None /\ new.tmp = None /\ new.box = None
      /\ new.volume = None /\ new.notes = None /\ new.root = runs
      /\ guest' = [guest EXCEPT ![run.ct] = new]
  BY <1>1, <1>2 DEF ShedCt, Put
<1> HIDE DEF new
<1>4. run' # None => /\ run' \in Run /\ run'.step = "clone" /\ run'.ct = run.ct
                     /\ ~run'.update /\ run'.op = runs /\ run'.root = runs
  <2>1. ASSUME run' # None PROVE GoWith("clone", runs, runs)
    BY <1>2, <2>1 DEF GoWith
  <2> QED BY <1>1, <2>1, GoesWith DEF Steps
<1>5. ASSUME run' # None PROVE StepOK(run', new) /\ run'.step \in InsideCt
  <2>1. runs # None
    BY <1>1, SecretIs
  <2>2. Blank(run', new)
    BY <1>3, <1>4, <1>5, <2>1 DEF Blank
  <2> QED BY <1>4, <1>5, <2>2 DEF StepOK, InsideCt
<1>6. run.ct \notin Shed /\ run.step \in Early /\ Bare(new)
  BY <1>1, <1>3 DEF Shed, Early, Bare
<1>7. run' \in Run \cup {None}
  BY <1>4
<1> QED BY <1>1, <1>3, <1>4, <1>5, <1>6, <1>7, NewCtKeeps

\* What a CT runs with, or what the database knows, is nothing a run relies on.
LEMMA StepStands ==
  ASSUME NEW r, NEW ct, NEW new, StepOK(r, ct),
         new.env = ct.env, new.root = ct.root,
         \/ ct.box # None /\ new.tmp = ct.tmp /\ new.box = ct.box
         \/ /\ new.box = None /\ new.volume = ct.volume /\ new.notes = ct.notes
            /\ new.tmp \in {ct.tmp, None} /\ r.step \notin {"remove", "reclone", "restore"}
  PROVE  StepOK(r, new)
<1>1. CASE ct.box # None /\ new.tmp = ct.tmp /\ new.box = ct.box
  <2>1. r.step \notin {"clone", "env"}
    BY <1>1 DEF StepOK, Blank
  <2>2. (Runs(r, ct) => Runs(r, new)) /\ (SameRoot(ct) => SameRoot(new))
    BY <1>1 DEF Runs, SameRoot
  <2>3. Knows(r, ct) => Knows(r, new)
    BY <2>2 DEF Knows
  <2> QED BY <1>1, <2>1, <2>2, <2>3 DEF StepOK
<1>2. CASE /\ new.box = None /\ new.volume = ct.volume /\ new.notes = ct.notes
           /\ new.tmp \in {ct.tmp, None} /\ r.step \notin {"remove", "reclone", "restore"}
  <2>1. /\ Runs(r, new) /\ (SameRoot(ct) => SameRoot(new))
    BY <1>2 DEF Runs, SameRoot
  <2>2. /\ Knows(r, ct) => Knows(r, new)
        /\ Blank(r, ct) => Blank(r, new)
    BY <1>2, <2>1 DEF Knows, Blank
  <2> QED BY <1>2, <2>1, <2>2 DEF StepOK
<1> QED BY <1>1, <1>2

LEMMA AppKeeps ==
  ASSUME InstallInv, NEW v \in Vmids, DbStarts(v) \/ AppStarts(v)
  PROVE  InstallInv'
<1> DEFINE ct  == guest[v]
           new == IF ct.volume = None
                  THEN [ct EXCEPT !.volume = [db |-> ct.box.db, op |-> None]]
                  ELSE [ct EXCEPT !.volume = Seed(ct.volume, ct.box)]
<1>1. /\ v \in Shed /\ ct.box # None
      /\ ct.volume # None => ct.volume.db = ct.box.db
      /\ state' = state /\ run' = run /\ runs' = runs /\ lost' = lost
  BY DEF DbStarts, AppStarts
<1>2. /\ TypeOK /\ ct \in ShedCt /\ Sound(ct, Youngest) /\ Youngest \in Nat
  BY <1>1, YoungestIs DEF InstallInv, TypeOK, Shed
<1>3. guest' = [guest EXCEPT ![v] = new]
  <2>1. CASE DbStarts(v)
    BY <1>2, <2>1 DEF DbStarts, TypeOK, ShedCt
  <2>2. CASE AppStarts(v)
    BY <1>2, <2>2 DEF AppStarts, TypeOK, ShedCt
  <2> QED BY <2>1, <2>2
<1>4. \/ ct.volume = None /\ new = [ct EXCEPT !.volume = [db |-> ct.box.db, op |-> None]]
      \/ /\ ct.volume # None /\ ct.volume.db = ct.box.db
         /\ new = [ct EXCEPT !.volume = Seed(ct.volume, ct.box)]
  BY <1>1
<1>5. ct = guest[v]
  OBVIOUS
<1> HIDE DEF new, ct
<1>6. /\ new \in ShedCt /\ Sound(new, Youngest)
      /\ new.env = ct.env /\ new.tmp = ct.tmp /\ new.box = ct.box /\ new.root = ct.root
      /\ Opens(ct) => Opens(new)
  BY <1>1, <1>2, <1>4, VolumeCt
<1>7. ASSUME run # None, run.ct = v, run.step \in InsideCt PROVE StepOK(run, new)
  <2>1. StepOK(run, ct)
    BY <1>5, <1>7 DEF InstallInv, RunOK
  <2> QED BY <1>1, <1>6, <2>1, StepStands
<1> QED BY <1>1, <1>3, <1>5, <1>6, <1>7, EnvKeeps

LEMMA DownKeeps ==
  ASSUME InstallInv, NEW v \in Vmids, GoesDown(v)
  PROVE  InstallInv'
<1> DEFINE ct == guest[v]
<1>1. PICK up \in BOOLEAN, emptied \in BOOLEAN :
        /\ guest' = [guest EXCEPT ![v].up = up, ![v].box = None,
                                  ![v].tmp = IF emptied THEN None ELSE @]
        /\ lost' = IF emptied /\ ct.env = None /\ ct.tmp # None
                   THEN lost \cup {v} ELSE lost
  BY DEF GoesDown
<1>2. /\ v \in Shed /\ state' = state /\ runs' = runs
      /\ run' = IF run # None /\ run.ct = v /\ run.step \in {"remove", "reclone", "restore"}
                THEN None ELSE run
  BY DEF GoesDown
<1>3. /\ TypeOK /\ ct \in ShedCt /\ Sound(ct, Youngest) /\ Youngest \in Nat
  BY <1>2, YoungestIs DEF InstallInv, TypeOK, Shed
<1> DEFINE new == Down(ct, up, emptied)
<1>4. guest' = [guest EXCEPT ![v] = new]
  BY <1>1, <1>3 DEF TypeOK, Down
<1>5. ct = guest[v]
  OBVIOUS
<1>6. /\ new \in ShedCt /\ Sound(new, Youngest)
      /\ new.env = ct.env /\ new.tmp \in {ct.tmp, None} /\ new.box = None
      /\ new.root = ct.root /\ new.volume = ct.volume /\ new.notes = ct.notes
      /\ Opens(ct) /\ ~(emptied /\ ct.env = None /\ ct.tmp # None) => Opens(new)
  BY <1>3, DownCt
<1> HIDE DEF new, ct
<1>7. ASSUME run' # None, run.ct = v, run.step \in InsideCt PROVE StepOK(run, new)
  <2>1. run = run' /\ run # None /\ run.step \notin {"remove", "reclone", "restore"}
    BY <1>2, <1>7
  <2>2. StepOK(run, ct)
    BY <1>5, <1>7, <2>1 DEF InstallInv, RunOK
  <2> QED BY <1>6, <2>1, <2>2, StepStands
<1>8. v \notin lost' /\ Opens(ct) => Opens(new)
  BY <1>1, <1>6
<1>9. lost' \in {lost, lost \cup {v}} /\ run' \in {run, None}
  BY <1>1, <1>2
<1> QED BY <1>2, <1>4, <1>5, <1>6, <1>7, <1>8, <1>9, EnvKeeps

LEMMA AppearsKeeps ==
  ASSUME InstallInv, NEW v \in Vmids, Appears(v)
  PROVE  InstallInv'
<1> USE DEF InstallInv
<1>1. PICK g \in Foreign : guest' = [guest EXCEPT ![v] = g]
  BY DEF Appears
<1>2. guest[v] = None /\ state' = state /\ run' = run /\ runs' = runs /\ lost' = lost
  BY DEF Appears
<1>3. guest' \in [Vmids -> ShedCt \cup Foreign \cup {None}]
      /\ \A w \in Vmids : guest'[w] = IF w = v THEN g ELSE guest[w]
  BY <1>1 DEF TypeOK
<1>4. Shed' = Shed /\ (\A w \in Shed : guest'[w] = guest[w])
  BY <1>2, <1>3 DEF Shed
<1>5. TypeOK'
  BY <1>2, <1>3 DEF TypeOK
<1>6. RunOK'
  BY <1>2, <1>4 DEF RunOK
<1>7. Youngest' = Youngest
  BY <1>2 DEF Youngest
<1> QED BY <1>2, <1>4, <1>5, <1>6, <1>7

LEMMA DestroyedKeeps ==
  ASSUME InstallInv, NEW v \in Vmids, DestroyedByHand(v)
  PROVE  InstallInv'
<1> USE DEF InstallInv
<1>1. /\ guest' = [guest EXCEPT ![v] = None] /\ lost' = lost \ {v}
      /\ state' = state /\ run' = run /\ runs' = runs
      /\ run # None /\ run.ct = v => run.step \notin InsideCt
  BY DEF DestroyedByHand, InsideCt
<1>2. guest' \in [Vmids -> ShedCt \cup Foreign \cup {None}]
      /\ \A w \in Vmids : guest'[w] = IF w = v THEN None ELSE guest[w]
  BY <1>1 DEF TypeOK
<1>3. Shed' = Shed \ {v} /\ (\A w \in Shed' : guest'[w] = guest[w])
  BY <1>2 DEF Shed
<1>4. TypeOK'
  BY <1>1, <1>2 DEF TypeOK
<1>5. RunOK'
  <2>1. ASSUME run # None, run.step \in InsideCt
        PROVE  run.ct \in Shed' /\ StepOK(run, guest'[run.ct])
    <3>1. run.ct \in Shed /\ StepOK(run, guest[run.ct]) /\ run.ct # v
      BY <1>1, <2>1 DEF RunOK
    <3> QED BY <1>3, <3>1
  <2> QED BY <1>1, <1>3, <2>1 DEF RunOK
<1>6. Youngest' = Youngest
  BY <1>1 DEF Youngest
<1> QED BY <1>1, <1>3, <1>4, <1>5, <1>6

LEMMA InstallInit == Init => InstallInv
<1> SUFFICES ASSUME Init PROVE InstallInv
  OBVIOUS
<1>1. run = None /\ runs = 0 /\ lost = {} /\ Preferred \in Vmids
  BY InstallerAssumption, MinExists DEF Init, Preferred
<1>2. 0 \in Secret /\ None # 0 /\ Youngest = 1
  BY <1>1, InstallerAssumption DEF Secret, Youngest
<1>3. CASE guest = [v \in Vmids |-> None] /\ state = None
  BY <1>1, <1>2, <1>3 DEF InstallInv, TypeOK, RunOK, Shed
<1>4. ASSUME NEW ref \in Versions,
             guest = [v \in Vmids |-> IF v = Preferred THEN Older(ref) ELSE None],
             state \in {None, Preferred}
      PROVE  InstallInv
  <2> DEFINE e  == [db |-> 0, op |-> 0, root |-> None, ref |-> ref]
             ct == Older(ref)
  <2>1. e \in Env /\ e # None /\ e.db = 0 /\ e.op = 0 /\ e.root = None
    BY <1>2, InstallerAssumption DEF Env
  <2>2. [db |-> 0, op |-> 0] \in Volume /\ [op |-> 0, root |-> None] \in Notes
    BY <1>2 DEF Volume, Notes
  <2>3. ct = [up |-> TRUE, root |-> 0, code |-> ref, env |-> e, tmp |-> None,
              made |-> FALSE, box |-> e, volume |-> [db |-> 0, op |-> 0],
              notes |-> [op |-> 0, root |-> None]]
    BY DEF Older
  <2> HIDE DEF e
  <2>4. /\ ct \in ShedCt /\ ct.env = e /\ ct.tmp = None /\ ct.box = e
        /\ ct.volume = [db |-> 0, op |-> 0] /\ ct.notes = [op |-> 0, root |-> None]
        /\ ct.volume # None /\ ct.notes # None
    BY <1>2, <2>1, <2>2, <2>3, InstallerAssumption DEF ShedCt
  <2>5. ct \notin Foreign \cup {None}
    BY <2>4, InstallerAssumption
  <2>6. Copies(ct) = {e} /\ Live(ct) = e
    BY <2>1, <2>4 DEF Copies, Live
  <2>7. Opens(ct)
    BY <2>1, <2>4, <2>6 DEF Opens
  <2>8. DbsBelow(ct, 1)
    BY <2>1, <2>4, <2>6 DEF DbsBelow
  <2>9. PairsAgree(ct) /\ RootAgrees(ct)
    BY <2>1, <2>4, <2>6 DEF PairsAgree, RootAgrees
  <2>10. RootKept(ct) /\ OpNoted(ct)
    BY <1>2, <2>4 DEF RootKept, OpNoted
  <2> HIDE DEF ct
  <2>11. guest = [v \in Vmids |-> IF v = Preferred THEN ct ELSE None]
    BY <1>4 DEF ct
  <2>12. TypeOK /\ Shed = {Preferred}
    BY <1>1, <1>2, <1>4, <2>4, <2>5, <2>11 DEF TypeOK, Shed
  <2> QED
    BY <1>1, <1>2, <2>7, <2>8, <2>9, <2>10, <2>11, <2>12 DEF InstallInv, RunOK, Sound, CtOK
<1> QED BY <1>3, <1>4 DEF Init

LEMMA InstallStep == InstallInv /\ [Next]_vars => InstallInv'
<1> SUFFICES ASSUME InstallInv, [Next]_vars PROVE InstallInv'
  OBVIOUS
<1>1. CASE \E inv \in Invocation : Start(inv)
  BY <1>1, StartKeeps
<1>2. CASE Step
  BY <1>2, DeleteKeeps, CreateKeeps, CloneKeeps, WriteEnvKeeps, BeginUpdateKeeps,
     BackupKeeps, RemoveKeeps, CloneAgainKeeps, RestoreKeeps, UpsertKeeps,
     ComposeUpKeeps, ReloadKeeps, PersistKeeps, FinishKeeps DEF Step
<1>3. CASE Interrupt
  BY <1>3, InterruptKeeps
<1>4. CASE \E v \in Vmids : DbStarts(v) \/ AppStarts(v) \/ GoesDown(v) \/ Appears(v)
                               \/ DestroyedByHand(v)
  BY <1>4, AppKeeps, DownKeeps, AppearsKeeps, DestroyedKeeps
<1>5. CASE UNCHANGED vars
  <2>1. TypeOK' /\ Shed' = Shed /\ Youngest' = Youngest
    BY <1>5 DEF InstallInv, TypeOK, Shed, Youngest, vars
  <2>2. RunOK'
    BY <1>5, <2>1 DEF InstallInv, RunOK, vars
  <2> QED BY <1>5, <2>1, <2>2 DEF InstallInv, vars
<1> QED BY <1>1, <1>2, <1>3, <1>4, <1>5 DEF Next

LEMMA Installation == Spec => []InstallInv
BY InstallInit, InstallStep, PTL DEF Spec

-----------------------------------------------------------------------------
(* The theorems.                                                           *)

\* What print_summary says logs in, after any number of runs, each cut short anywhere:
\* the database never got another operator's password, and root's changed only when
\* neither .env nor its copy had one.
THEOREM PrintedLoginsWork == Spec => []SummaryLogsIn
<1>1. InstallInv => SummaryLogsIn
  BY DEF InstallInv, Sound, CtOK, RootKept, OpNoted, SummaryLogsIn
<1> QED BY <1>1, Installation, PTL

\* An update that was cut off can be repeated: the database's password is still there,
\* and a run that waits for the app waits for something that can happen.
THEOREM UpdatesCanBeRepeated == Spec => []CanRecover
<1>1. InstallInv => DatabaseStaysOpen
  BY DEF InstallInv, Opens, Live, DatabaseStaysOpen
<1>2. InstallInv => WaitCanEnd
  <2> SUFFICES ASSUME InstallInv, At("wait"), run.ct \in Shed \ lost, Ct.box # None
               PROVE  /\ Ct.box.ref = run.inv.ref
                      /\ Ct.volume # None => Ct.volume.db = Ct.box.db
    BY DEF WaitCanEnd
  <2>1. Knows(run, Ct)
    BY DEF At, InstallInv, RunOK, InsideCt, StepOK, Ct
  <2>2. Opens(Ct)
    BY DEF InstallInv, Ct
  <2> QED BY <2>1, <2>2 DEF Knows, Runs, Opens, Live
<1> QED BY <1>1, <1>2, Installation, PTL DEF CanRecover

\* What a step of a run may do to the host: work in one Shed CT, destroy the one it
\* showed, create one at a free VMID, or take over the CT it was asked to update.
GuestAt(v, g) == guest'[v] = g /\ \A w \in Vmids : w # v => guest'[w] = guest[w]

\* The warning that a CT will be destroyed
Announced(v) == [action |-> "delete", ct |-> v, at |-> "shed"]

GuestStep ==
  \/ guest' = guest
  \/ \E v \in Shed, new \in ShedCt : GuestAt(v, new)
  \/ \E v \in Shed : GuestAt(v, None) /\ run.inv.delete /\ run.shown = Announced(v)
  \/ \E v \in Vmids, new \in ShedCt :
        /\ guest[v] = None /\ GuestAt(v, new)
        /\ run.inv.how = "yes" /\ ~run.inv.delete => Shed = {}
  \/ \E v \in Vmids, new \in ShedCt :
        guest[v] = OtherCt /\ GuestAt(v, new) /\ v = run.ct /\ Asked(run)

\* A run that goes on in its CT has left a Shed CT there.
LEMMA MovedIs ==
  ASSUME TypeOK, InstallInv', run # None, run.ct \in Shed, NEW new, Put(new),
         run' # None, run'.ct = run.ct, run'.step \in InsideCt
  PROVE  GuestStep
<1>1. guest'[run.ct] = new /\ GuestAt(run.ct, new)
  BY DEF Put, TypeOK, Shed, GuestAt
<1>2. run.ct \in Shed' /\ guest' \in [Vmids -> ShedCt \cup Foreign \cup {None}]
  BY DEF InstallInv, RunOK, TypeOK
<1>3. new \in ShedCt
  BY <1>1, <1>2 DEF Shed
<1> QED BY <1>1, <1>3 DEF GuestStep

LEMMA GuestSteps == InstallInv /\ InstallInv' /\ Step => GuestStep
<1> SUFFICES ASSUME InstallInv, InstallInv', Step PROVE GuestStep
  OBVIOUS
<1>1. TypeOK /\ RunOK /\ guest \in [Vmids -> ShedCt \cup Foreign \cup {None}]
  BY DEF InstallInv, TypeOK
<1>2. CASE guest' = guest
  BY <1>2 DEF GuestStep
<1>3. CASE Delete
  <2>1. CASE DeleteTarget \in Shed
    <3>1. GuestAt(DeleteTarget, None)
      BY <1>1, <1>3, <2>1 DEF Delete, GuestAt, Shed
    <3>2. run.inv.delete /\ run.shown = Announced(DeleteTarget)
      <4>1. /\ run.inv.delete /\ run.shown.action = "delete" /\ run.shown.ct = DeleteTarget
            /\ run.shown.at = "shed"
        BY <1>1, <1>3, <2>1 DEF RunOK, Delete, At, DeleteTarget, RecordedOr
      <4>2. run.shown \in Warnings
        BY <1>1, <1>3 DEF TypeOK, Run, Delete, At
      <4> QED BY <4>1, <4>2 DEF Warnings, Announced
    <3> QED BY <2>1, <3>1, <3>2 DEF GuestStep
  <2>2. CASE DeleteTarget \notin Shed
    BY <1>3, <2>2 DEF Delete, GuestStep
  <2> QED BY <2>1, <2>2
<1>4. CASE Create
  <2>1. /\ run # None /\ run.step = "fresh" /\ run.ct \in Vmids /\ guest[run.ct] = None
        /\ run.inv.how = "yes" /\ ~run.inv.delete => Shed = {}
    BY <1>1, <1>4 DEF Create, At, RunOK, TypeOK, Run, VmidInUse
  <2>2. PICK up \in BOOLEAN :
          Put([up |-> up, root |-> runs, code |-> None, env |-> None, tmp |-> None,
               made |-> FALSE, box |-> None, volume |-> None, notes |-> None])
    BY <1>4 DEF Create
  <2> DEFINE new == [up |-> up, root |-> runs, code |-> None, env |-> None, tmp |-> None,
                     made |-> FALSE, box |-> None, volume |-> None, notes |-> None]
  <2>3. new \in ShedCt
    BY <1>1 DEF ShedCt, TypeOK
  <2>4. GuestAt(run.ct, new)
    BY <1>1, <2>1, <2>2 DEF GuestAt, Put
  <2> HIDE DEF new
  <2> QED BY <2>1, <2>3, <2>4 DEF GuestStep
<1>5. CASE BeginUpdate
  <2>1. run # None /\ run \in Run /\ run.ct \in Vmids /\ Asked(run) /\ IsCt(guest, run.ct)
    BY <1>1, <1>5 DEF BeginUpdate, At, RunOK, TypeOK, Run
  <2>2. PICK ct \in ShedCt : Put([ct EXCEPT !.up = TRUE])
    <3>1. run.ct \in Shed => Ct \in ShedCt
      BY <1>1 DEF Shed, Ct
    <3> QED BY <1>1, <1>5, <3>1, ClaimedIs DEF BeginUpdate
  <2> DEFINE new == [ct EXCEPT !.up = TRUE]
  <2>3. new \in ShedCt
    BY DEF ShedCt
  <2>4. GuestAt(run.ct, new)
    BY <1>1, <2>1, <2>2 DEF Put, GuestAt
  <2>5. run.ct \notin Shed => guest[run.ct] = OtherCt
    BY <2>1 DEF IsCt, Shed, Foreign
  <2> HIDE DEF new
  <2> QED BY <2>1, <2>3, <2>4, <2>5 DEF GuestStep
<1>6. ASSUME run # None, run.step \in InsideCt, guest' # guest
      PROVE  GuestStep
  <2>1. run.ct \in Shed
    BY <1>1, <1>6 DEF RunOK
  <2>2. run \in Run /\ Ct \in ShedCt
    BY <1>1, <1>6, <2>1 DEF TypeOK, Shed, Ct
  <2>3. CASE Finish
    <3> DEFINE new == [Ct EXCEPT !.notes = Summary(run)]
    <3>1. GuestAt(run.ct, new)
      BY <1>1, <2>1, <2>3 DEF Finish, Put, GuestAt, Shed
    <3>2. Summary(run) \in Notes
      BY <2>2 DEF Run, Notes, Summary
    <3>3. new \in ShedCt
      BY <2>2, <3>2 DEF ShedCt
    <3> HIDE DEF new
    <3> QED BY <2>1, <3>1, <3>3 DEF GuestStep
  <2>4. CASE Clone
    <3>1. run' # None /\ run'.ct = run.ct /\ run'.step \in InsideCt
      BY <2>2, <2>4, GoesTo DEF Clone, Steps, InsideCt
    <3> QED BY <1>1, <1>6, <2>1, <2>4, <3>1, MovedIs DEF Clone
  <2>5. CASE WriteEnv
    <3>1. run' # None /\ run'.ct = run.ct /\ run'.step \in InsideCt
      BY <2>2, <2>5, GoesTo DEF WriteEnv, Steps, InsideCt
    <3> QED BY <1>1, <1>6, <2>1, <2>5, <3>1, MovedIs DEF WriteEnv
  <2>6. CASE Backup
    <3>1. run' # None /\ run'.ct = run.ct /\ run'.step \in InsideCt
      BY <2>2, <2>6, GoesTo DEF Backup, Steps, InsideCt
    <3> QED BY <1>1, <1>6, <2>1, <2>6, <3>1, MovedIs DEF Backup
  <2>7. CASE Remove
    <3>1. run' # None /\ run'.ct = run.ct /\ run'.step \in InsideCt
      BY <2>2, <2>7, GoesTo DEF Remove, Steps, InsideCt
    <3> QED BY <1>1, <1>6, <2>1, <2>7, <3>1, MovedIs DEF Remove
  <2>8. CASE CloneAgain
    <3>1. run' # None /\ run'.ct = run.ct /\ run'.step \in InsideCt
      BY <2>2, <2>8, GoesTo DEF CloneAgain, Steps, InsideCt
    <3> QED BY <1>1, <1>6, <2>1, <2>8, <3>1, MovedIs DEF CloneAgain
  <2>9. CASE Restore
    <3>1. run' # None /\ run'.ct = run.ct /\ run'.step \in InsideCt
      BY <2>2, <2>9, GoesTo DEF Restore, Steps, InsideCt
    <3> QED BY <1>1, <1>6, <2>1, <2>9, <3>1, MovedIs DEF Restore
  <2>10. CASE Upsert
    <3>1. run' # None /\ run'.ct = run.ct /\ run'.step \in InsideCt
      BY <1>1, <2>2, <2>10, UpsertGoes DEF TypeOK, InsideCt
    <3>2. PICK new : Put(new)
      BY <2>10 DEF Upsert
    <3> QED BY <1>1, <1>6, <2>1, <3>1, <3>2, MovedIs
  <2>11. CASE ComposeUp
    <3>1. /\ GoTo(IF run.update THEN "reload" ELSE "wait")
          /\ (IF run.update THEN "reload" ELSE "wait") \in Steps
          /\ (IF run.update THEN "reload" ELSE "wait") \in InsideCt
      BY <2>11 DEF ComposeUp, Steps, InsideCt
    <3>2. run' # None /\ run'.ct = run.ct /\ run'.step \in InsideCt
      BY <2>2, <3>1, GoesTo
    <3> QED BY <1>1, <1>6, <2>1, <2>11, <3>2, MovedIs DEF ComposeUp
  <2>12. CASE Reload
    <3>1. run' = [Loaded(run, Ct) EXCEPT !.step = "persist", !.root = runs] /\ Put(Chpasswd(Ct))
      BY <1>6, <2>12 DEF Reload
    <3>2. run' # None /\ run'.ct = run.ct /\ run'.step \in InsideCt
      <4>1. runs \in Secret /\ run.op \in Secret \cup {None}
        BY <1>1, <2>2 DEF TypeOK, Run
      <4>2. PICK op \in Secret \cup {None} : GoWith("persist", op, runs)
        <5>1. CASE Ct.env = None
          BY <2>2, <3>1, <4>1, <5>1 DEF Loaded, GoWith, Run
        <5>2. CASE Ct.env # None
          <6>1. Ct.env.op \in Secret
            BY <2>2, <5>2, CtFields DEF Env
          <6>2. GoWith("persist", Ct.env.op, runs)
            BY <2>2, <3>1, <5>2 DEF Loaded, GoWith, Run
          <6> QED BY <6>1, <6>2
        <5> QED BY <5>1, <5>2
      <4> QED BY <2>2, <4>1, <4>2, GoesWith DEF Steps, InsideCt
    <3> QED BY <1>1, <1>6, <2>1, <3>1, <3>2, MovedIs
  <2>13. CASE Persist
    <3>1. run' # None /\ run'.ct = run.ct /\ run'.step \in InsideCt
      BY <2>2, <2>13, GoesTo DEF Persist, Steps, InsideCt
    <3> QED BY <1>1, <1>6, <2>1, <2>13, <3>1, MovedIs DEF Persist
  <2>14. ~Delete /\ ~Create /\ ~BeginUpdate
    BY <1>6 DEF Delete, Create, BeginUpdate, At, InsideCt
  <2> QED
    BY <2>3, <2>4, <2>5, <2>6, <2>7, <2>8, <2>9, <2>10, <2>11, <2>12, <2>13, <2>14 DEF Step
<1>7. run # None /\ run.step \in InsideCt \cup {"update", "delete", "fresh"}
  BY DEF Step, InsideCt, At, Delete, Create, Clone, WriteEnv, BeginUpdate, Backup,
         Remove, CloneAgain, Restore, Upsert, ComposeUp, Reload, Persist, Finish, InCt
<1>8. CASE run.step \in {"delete", "fresh", "update"}
  <2>1. Delete \/ Create \/ BeginUpdate
    BY <1>8
    DEF Step, At, Clone, WriteEnv, Backup, Remove, CloneAgain, Restore, Upsert, ComposeUp,
        Reload, Persist, Finish, InCt
  <2> QED BY <1>3, <1>4, <1>5, <2>1
<1> QED BY <1>2, <1>6, <1>7, <1>8

\* A run changes what is at a foreign guest's VMID in one way: it takes over the CT whose
\* update it announced, which was a Shed CT then, or was typed by an operator who saw
\* whose it is.
THEOREM ForeignGuestsByChoice == Spec => ForeignOnlyAsPlanned
<1>1. InstallInv /\ InstallInv' /\ [Next]_vars
        => [Step => \A v \in Vmids : guest[v] \in Foreign /\ guest'[v] # guest[v] =>
              /\ guest[v] = OtherCt /\ guest'[v] \in ShedCt
              /\ run.shown.action = "update" /\ run.shown.ct = v
              /\ run.shown.at = "other" => run.inv.how = "ask"]_vars
  <2> SUFFICES ASSUME GuestStep, NEW v \in Vmids, guest[v] \in Foreign, guest'[v] # guest[v]
               PROVE  /\ guest[v] = OtherCt /\ guest'[v] \in ShedCt
                      /\ run.shown.action = "update" /\ run.shown.ct = v
                      /\ run.shown.at = "other" => run.inv.how = "ask"
    BY GuestSteps
  <2>1. v \notin Shed /\ guest[v] # None
    BY InstallerAssumption DEF Shed
  <2>2. \E new \in ShedCt : guest[v] = OtherCt /\ GuestAt(v, new) /\ v = run.ct /\ Asked(run)
    BY <2>1 DEF GuestStep, GuestAt
  <2> QED BY <2>2 DEF GuestAt, Asked
<1> QED BY <1>1, Installation, PTL DEF Spec, ForeignOnlyAsPlanned

\* --delete destroys the CT it has shown, whatever happened while it waited for the
\* operator.
THEOREM DeletesWhatWasShown == Spec => DestroysWhatWasShown
<1>1. InstallInv /\ InstallInv' /\ [Next]_vars
        => [Step => \A v \in Shed : guest'[v] = None =>
              run.inv.delete /\ run.shown = [action |-> "delete", ct |-> v, at |-> "shed"]]_vars
  <2> SUFFICES ASSUME GuestStep, NEW v \in Shed, guest'[v] = None
               PROVE  run.inv.delete /\ run.shown = Announced(v)
    BY GuestSteps DEF Announced
  <2>1. v \in Vmids /\ guest[v] # None /\ None \notin ShedCt \cup Foreign
    BY InstallerAssumption DEF Shed
  <2> QED BY <2>1 DEF GuestStep, GuestAt
<1> QED BY <1>1, Installation, PTL DEF Spec, DestroysWhatWasShown

\* --yes creates a CT only where there is none, also when the plan has grown old.
THEOREM YesUpdatesWhatIsThere == Spec => YesNeverParallel
<1>1. InstallInv /\ InstallInv' /\ [Next]_vars
        => [Step => \A v \in Vmids : guest[v] = None /\ guest'[v] \in ShedCt =>
              (run.inv.how = "yes" /\ ~run.inv.delete => Shed = {})]_vars
  <2> SUFFICES ASSUME GuestStep, NEW v \in Vmids, guest[v] = None, guest'[v] \in ShedCt
               PROVE  run.inv.how = "yes" /\ ~run.inv.delete => Shed = {}
    BY GuestSteps
  <2>1. v \notin Shed /\ None \notin ShedCt /\ OtherCt # None
    BY InstallerAssumption DEF Shed, Foreign
  <2> QED BY <2>1 DEF GuestStep, GuestAt
<1> QED BY <1>1, Installation, PTL DEF Spec, YesNeverParallel
=============================================================================

---------------------------- MODULE PlanFreshness ----------------------------
(***************************************************************************)
(* Master plans live in the vault; Calliope's document store holds a copy. *)
(* A sweep compares each plan with its copy and may write the plan's text  *)
(* over it (sweep_plans of plan_freshness.py, _plan_sweep of               *)
(* verbs_plan.py).  Sweeps run as calls of the plan_freshness verb, on     *)
(* worker threads, and in the reconcile loop (plan_reconcile.py), a daemon *)
(* thread that skips the store read of every plan whose file is no newer   *)
(* than the clock it has cached (_PLAN_CLOCKS, shared by all sweeps).      *)
(*                                                                         *)
(* Text is a token: the number of the save that wrote it.  Clocks are      *)
(* whole seconds, as file_mtime_iso and the store keep them.               *)
(***************************************************************************)
EXTENDS Naturals

CONSTANTS
    Plan,       \* the plans of the swept directory
    Verb,       \* concurrent calls of the plan_freshness verb
    None,       \* no copy in the store; no clock in the cache
    Modes,      \* the arguments the verb is called with
    MaxSave,    \* bound on the saves of a behaviour
    SameSecond, \* two saves may fall into one second
    Faults,     \* which calls may fail
    Restarts    \* the server process may die

Flag == {"refresh", "missing", "backfill"}
Fault == {"vault", "read", "write", "auth"}

ASSUME PlanAssumption ==
    /\ Plan # {}
    /\ Modes \subseteq SUBSET Flag
    /\ MaxSave \in Nat
    /\ None \notin Nat
    /\ "loop" \notin Verb
    /\ {SameSecond, Restarts} \subseteq BOOLEAN
    /\ Faults \subseteq Fault

Sweeper == Verb \cup {"loop"}
File == [text : Nat, mtime : Nat]

\* A stored text with the clock it was sent under, and the text the file had when that
\* clock was read, a history that no action looks at but to keep `astray'.
Copy == [text : Nat, mtime : Nat, of : Nat]

ASSUME NoCopyAssumption == None \notin Copy

VARIABLES
    file,    \* [Plan -> File]: the vault
    store,   \* [Plan -> Copy or None]: the newest copy
    cache,   \* [Plan -> Nat or None]: _PLAN_CLOCKS
    saves,   \* saves made so far
    now,     \* the second of the last save
    sw,      \* [Sweeper -> the locals of its sweep]
    astray   \* history: plans whose copy or clock has gone astray since they were last saved

vars == <<file, store, cache, saves, now, sw, astray>>

\* at: the plan at hand; raw: its text as read; clock: the stat of the payload; clocks and pop:
\* what the report will do to the cache; denied: refused calls.  History: of, the text that
\* clock belongs to; torn, the plans whose copy, as read, had another text's clock, and still
\* has.
SweepType ==
    [pc : {"idle", "vault", "gate", "store", "stat", "write", "end"},
     mode : SUBSET Flag, todo : SUBSET Plan, at : Plan, raw : Nat,
     clock : Nat, of : Nat, torn : SUBSET Plan,
     clocks : [Plan -> Nat \cup {None}], pop : SUBSET Plan, denied : Nat]

AnyPlan == CHOOSE p \in Plan : TRUE
Resting == [pc |-> "idle", mode |-> {}, todo |-> {}, at |-> AnyPlan, raw |-> 0,
            clock |-> 0, of |-> 0, torn |-> {},
            clocks |-> [p \in Plan |-> None], pop |-> {}, denied |-> 0]

-----------------------------------------------------------------------------
(* Decisions. *)

\* compare_plan: the text read against the copy read.
Compare(raw, copy) ==
    IF copy = None THEN "missing" ELSE IF copy.text = raw THEN "current" ELSE "drifted"

\* Wrong: a refresh populates the store too.
WritesMissing(mode, raw, copy) ==
    \/ "refresh" \in mode /\ Compare(raw, copy) \in {"drifted", "missing"}
    \/ "backfill" \in mode /\ Compare(raw, copy) = "current"

\* Is the compared plan written?  A drifted one by a refresh, a missing one only when the
\* caller says so, a current one only by a backfill.
Writes(mode, raw, copy) ==
    \/ "refresh" \in mode /\ Compare(raw, copy) = "drifted"
    \/ {"refresh", "missing"} \subseteq mode /\ Compare(raw, copy) = "missing"
    \/ "backfill" \in mode /\ Compare(raw, copy) = "current"

\* Wrong: an unknown clock counts as current.
ProbablyStaleKnown(p) == cache[p] # None /\ file[p].mtime > cache[p]

\* is_probably_stale, on the cached clock.
ProbablyStale(p) == cache[p] = None \/ file[p].mtime > cache[p]

\* The cheap gate is asked by the loop, after it has read the file.
Gated(s) == s = "loop"

\* The sweep goes on with its next plan.
NextPlan(t) == [t EXCEPT !.pc = "vault", !.todo = @ \ {t.at}]

Aborted(t) == [t EXCEPT !.pc = "end", !.denied = @ + 1]

\* The copy went to the store under the clock of another text.
Torn(copy) == copy.text # copy.of

Go(s, t) == sw' = [sw EXCEPT ![s] = t]

-----------------------------------------------------------------------------
(* One sweep. *)

\* plan_freshness of one plan or of the directory; the loop refreshes the directory.
Begin(s, mode, plans) ==
    /\ sw[s].pc = "idle"
    /\ IF s = "loop" THEN mode = {"refresh"} /\ plans = Plan ELSE mode \in Modes
    /\ Go(s, [Resting EXCEPT !.pc = "vault", !.mode = mode, !.todo = plans])
    /\ UNCHANGED <<file, store, cache, saves, now, astray>>

ReadVault(s, p) ==
    /\ sw[s].pc = "vault" /\ p \in sw[s].todo
    /\ Go(s, [sw[s] EXCEPT !.pc = IF Gated(s) THEN "gate" ELSE "store",
                           !.at = p, !.raw = file[p].text])
    /\ UNCHANGED <<file, store, cache, saves, now, astray>>

\* An unreadable plan is an error record; the sweep goes on.
ReadVaultFails(s) ==
    /\ sw[s].pc = "vault" /\ "vault" \in Faults
    /\ \E p \in sw[s].todo : Go(s, [sw[s] EXCEPT !.todo = @ \ {p}])
    /\ UNCHANGED <<file, store, cache, saves, now, astray>>

Gate(s) ==
    /\ sw[s].pc = "gate"
    /\ Go(s, IF ProbablyStale(sw[s].at) THEN [sw[s] EXCEPT !.pc = "store"] ELSE NextPlan(sw[s]))
    /\ UNCHANGED <<file, store, cache, saves, now, astray>>

Seen(t, copy) ==
    IF copy = None THEN t
    ELSE [t EXCEPT !.clocks[t.at] = copy.mtime,
                   !.torn = IF Torn(copy) THEN @ \cup {t.at} ELSE @]

\* The newest copy, compared by hash; its clock is remembered, whatever comes of the rest.
ReadStore(s) ==
    /\ sw[s].pc = "store"
    /\ LET t    == sw[s]
           copy == store[t.at]
       IN  Go(s, IF Writes(t.mode, t.raw, copy)
                 THEN [Seen(t, copy) EXCEPT !.pc = "stat"]
                 ELSE NextPlan(Seen(t, copy)))
    /\ UNCHANGED <<file, store, cache, saves, now, astray>>

\* Wrong: a sweep the gateway has refused goes on to its next plan.
CallRefusedGoesOn(s) ==
    /\ sw[s].pc \in {"store", "write"} /\ "auth" \in Faults
    /\ Go(s, [NextPlan(sw[s]) EXCEPT !.denied = @ + 1])
    /\ UNCHANGED <<file, store, cache, saves, now, astray>>

\* A refusal of this caller ends the sweep (aborted_auth); a refused write is a failed one.
CallRefused(s) ==
    /\ sw[s].pc \in {"store", "write"} /\ "auth" \in Faults
    /\ sw[s].pc = "write" => "write" \in Faults
    /\ Go(s, Aborted(sw[s]))
    /\ UNCHANGED <<file, store, cache, saves, now, astray>>

ReadStoreFails(s) ==
    /\ sw[s].pc = "store" /\ "read" \in Faults
    /\ Go(s, NextPlan(sw[s]))
    /\ UNCHANGED <<file, store, cache, saves, now, astray>>

\* Wrong: no clock is sent.
StatNothing(s) ==
    /\ sw[s].pc = "stat"
    /\ Go(s, [sw[s] EXCEPT !.pc = "write", !.clock = None])
    /\ UNCHANGED <<file, store, cache, saves, now, astray>>

\* _build_plan_payload stats the file now, for a text that was read before.
Stat(s) ==
    /\ sw[s].pc = "stat"
    /\ Go(s, [sw[s] EXCEPT !.pc = "write", !.clock = file[sw[s].at].mtime,
                           !.of = file[sw[s].at].text])
    /\ UNCHANGED <<file, store, cache, saves, now, astray>>

\* A new version; it may be an older text than the one it replaces.
Stored(t) ==
    /\ store' = [store EXCEPT ![t.at] = [text |-> t.raw, mtime |-> t.clock, of |-> t.of]]
    /\ astray' = IF store[t.at] # None /\ store[t.at].text > t.raw
                 THEN astray \cup {t.at} ELSE astray

\* write_document: a new version, or the same one with its attributes reconciled.
WriteStore(s) ==
    /\ sw[s].pc = "write"
    /\ Stored(sw[s])
    /\ Go(s, [NextPlan(sw[s]) EXCEPT !.pop = @ \cup {sw[s].at},
                                     !.torn = IF sw[s].raw = sw[s].of THEN @ \ {sw[s].at}
                                              ELSE @])
    /\ UNCHANGED <<file, cache, saves, now>>

\* The write fails, or its answer is lost.
WriteStoreFails(s) ==
    /\ sw[s].pc = "write" /\ "write" \in Faults
    /\ UNCHANGED <<store, astray>> \/ Stored(sw[s])
    /\ Go(s, NextPlan(sw[s]))
    /\ UNCHANGED <<file, cache, saves, now>>

Fresh(p) == store[p] = None \/ store[p].text = file[p].text

\* A clock c of plan p is older than the plan's file, or there is none.
Outdated(c, p) == c = None \/ c < file[p].mtime

\* Clocks of other texts are about to go into the cache, the files have not moved on, nor
\* have the copies been repaired.
Misled(s) == {p \in sw[s].torn : ~ Outdated(sw[s].clocks[p], p) /\ ~ Fresh(p)}

\* Wrong: a plan the sweep has written is cached under the file's clock of the moment.
EndWritten(s) ==
    /\ \/ sw[s].pc = "end"
       \/ sw[s].pc = "vault" /\ sw[s].todo = {}
    /\ cache' = [p \in Plan |-> IF p \in sw[s].pop THEN file[p].mtime
                                ELSE IF sw[s].clocks[p] # None THEN sw[s].clocks[p]
                                ELSE cache[p]]
    /\ astray' = astray \cup Misled(s)
    /\ Go(s, Resting)
    /\ UNCHANGED <<file, store, saves, now>>

\* The report is in: the clocks read go into the cache; a plan written without one goes out.
End(s) ==
    /\ \/ sw[s].pc = "end"
       \/ sw[s].pc = "vault" /\ sw[s].todo = {}
    /\ cache' = [p \in Plan |-> IF sw[s].clocks[p] # None THEN sw[s].clocks[p]
                                ELSE IF p \in sw[s].pop THEN None ELSE cache[p]]
    /\ astray' = astray \cup Misled(s)
    /\ Go(s, Resting)
    /\ UNCHANGED <<file, store, saves, now>>

-----------------------------------------------------------------------------
(* The world around the sweeps. *)

\* Somebody saves a plan, in the second of the last save or in a later one.
Save(p) ==
    /\ saves < MaxSave
    /\ saves' = saves + 1
    /\ now' \in {now + 1} \cup (IF SameSecond THEN {now} ELSE {})
    /\ file' = [file EXCEPT ![p] = [text |-> saves', mtime |-> now']]
    /\ astray' = IF now' > file[p].mtime THEN astray \ {p} ELSE astray \cup {p}
    /\ UNCHANGED <<store, cache, sw>>

\* The process dies: the cache and the sweeps are gone.
Restart ==
    /\ Restarts
    /\ \E s \in Sweeper : sw[s].pc # "idle"
    /\ cache' = [p \in Plan |-> None]
    /\ sw' = [s \in Sweeper |-> Resting]
    /\ UNCHANGED <<file, store, saves, now, astray>>

\* Some plans have a copy, the others have none.
Init ==
    /\ file = [p \in Plan |-> [text |-> 0, mtime |-> 0]]
    /\ \E stored \in SUBSET Plan :
          store = [p \in Plan |-> IF p \in stored THEN [text |-> 0, mtime |-> 0, of |-> 0]
                                 ELSE None]
    /\ cache = [p \in Plan |-> None]
    /\ saves = 0 /\ now = 0 /\ astray = {}
    /\ sw = [s \in Sweeper |-> Resting]

Step(s) ==
    \/ \E p \in Plan : ReadVault(s, p)
    \/ ReadVaultFails(s) \/ Gate(s)
    \/ ReadStore(s) \/ CallRefused(s) \/ ReadStoreFails(s)
    \/ Stat(s) \/ WriteStore(s) \/ WriteStoreFails(s) \/ End(s)

Start(s) == \E mode \in SUBSET Flag, plans \in {Plan} \cup {{p} : p \in Plan} : Begin(s, mode, plans)

Next ==
    \/ \E s \in Sweeper : Start(s) \/ Step(s)
    \/ \E p \in Plan : Save(p)
    \/ Restart

Spec == Init /\ [][Next]_vars

\* The loop's thread is scheduled and its waits end; a plan it reads, or asks the store for or
\* to write, over and over is answered again and again.
FairSpec ==
    /\ Spec
    /\ WF_vars(Start("loop")) /\ WF_vars(Step("loop"))
    /\ \A p \in Plan : /\ SF_vars(ReadVault("loop", p))
                       /\ SF_vars(sw["loop"].at = p /\ ReadStore("loop"))
                       /\ SF_vars(sw["loop"].at = p /\ WriteStore("loop"))

-----------------------------------------------------------------------------
(* Properties. *)

TypeOK ==
    /\ file \in [Plan -> File]
    /\ store \in [Plan -> Copy \cup {None}]
    /\ cache \in [Plan -> Nat \cup {None}]
    /\ saves \in Nat /\ now \in Nat
    /\ sw \in [Sweeper -> SweepType]
    /\ astray \subseteq Plan

\* The loop skips a plan only while its copy is the plan's text, whatever overlaps, fails,
\* is cut short or restarts, but for a plan that went astray: one whose copy, stored under
\* another text's clock, was not repaired by the sweep that read it; one whose newer copy was
\* overwritten by a slower sweep; or one saved twice in a second.  A later save brings it back.
\* (plan_freshness.py is_probably_stale: the gate "must never say `current' about a changed
\* one")
GateSkipsFreshOnly ==
    [][\A p \in Plan \ astray :
          (sw["loop"].pc = "gate" /\ sw["loop"].at = p /\ sw'["loop"].pc = "vault")
             => Fresh(p)]_vars

\* Only a sweep that was asked to populates the store: no overlap of sweeps makes a refresh
\* or a backfill create the copy of a plan that has none.
\* (plan_freshness.py sweep_plans: "refresh repairs drift only"; the verb's docstring says
\* that refresh=True writes "each drifted or missing plan", which no code does)
OnlyPopulateCreates ==
    [][\A p \in Plan :
          (store[p] = None /\ store'[p] # None)
             => \E s \in Sweeper : sw[s].at = p /\ {"refresh", "missing"} \subseteq sw[s].mode
                                   /\ sw[s].pc = "write" /\ sw'[s] # sw[s]]_vars

\* A gateway that refuses the caller is asked once per sweep, not once per plan.
\* (plan_freshness.py sweep_plans: "one burst was ~226 denies per tick")
OneDenialPerSweep == \A s \in Sweeper : sw[s].denied <= 1

\* Once nobody saves any more, every copy becomes the plan's text and stays so, though reads
\* and writes fail, unless the plan went astray.
\* (plan_reconcile.py start_plan_reconcile)
CopiesConverge == \A p \in Plan : <>[](Fresh(p) \/ p \in astray)
=============================================================================

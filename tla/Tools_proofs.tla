----------------------------- MODULE Tools_proofs -----------------------------
(***************************************************************************)
(* Proofs about Tools, for any sessions of any two commands, any number of *)
(* items and any number of kills.                                          *)
(*                                                                         *)
(* The proof is about scripts that are fit for what their command is for   *)
(* (ScriptsFit, which Commands_proofs shows of every script there is).     *)
(* First, what each action does to the run that takes it; then, that every *)
(* step has one of a few shapes; then, part by part, that a step of such a *)
(* shape preserves ToolsInv; last, that the properties follow.             *)
(***************************************************************************)
EXTENDS Commands_proofs, FiniteSetTheorems

-----------------------------------------------------------------------------
(* There are two runs.                                                     *)
LEMMA RunsFacts ==
  /\ 1 \in Runs /\ 2 \in Runs
  /\ \A p \in Runs : Other(p) \in Runs /\ Other(p) # p /\ Other(Other(p)) = p
  /\ \A p, q \in Runs : q # p => q = Other(p)
BY DEF Runs, Other

(* What the type invariant says of a run's script.                         *)
LEMMA ScriptFacts ==
  ASSUME TypeOK, NEW p \in Runs
  PROVE  /\ Command(p) \in DOMAIN Scripts /\ Fits(Command(p), Script(p))
         /\ session.how \in {"beside", "then"}
<1>1. Command(p) \in DOMAIN Scripts /\ session.how \in {"beside", "then"}
  <2>1. session \in Session
    BY ToolsAssumption DEF TypeOK
  <2> QED
    BY <2>1 DEF Session, Command, Runs
<1> QED
  BY <1>1, ScriptsAreFit DEF ScriptsFit, Script

(* What it says of one of its steps.                                       *)
LEMMA StepFacts ==
  ASSUME TypeOK, NEW p \in Runs
  PROVE  /\ Len(Steps(p)) \in Nat /\ DOMAIN Steps(p) = 1 .. Len(Steps(p))
         /\ Script(p).exit \in {"success", "verdict", "always"} /\ Script(p).some \in BOOLEAN
         /\ \A k \in 1 .. Len(Steps(p)) :
              /\ Steps(p)[k] \in StepSet
              /\ Steps(p)[k].again \/ Steps(p)[k].op = "until" \/ Steps(p)[k].fails = "note"
                   => Steps(p)[k].each
              /\ Steps(p)[k].op \in Making /\ Steps(p)[k].file = "frame" => Steps(p)[k].each
              /\ Steps(p)[k].op = "remove" => Steps(p)[k].file # "frame"
              /\ Steps(p)[k].op = "list" =>
                   \A l \in 1 .. Len(Steps(p)) : Steps(p)[l].op = "list" => l = k
<1>1. WellFormed(Script(p))
  BY ScriptFacts DEF Fits
<1> QED
  BY <1>1 DEF WellFormed, Steps

(* The step a run is at.                                                   *)
LEMMA NowFacts ==
  ASSUME TypeOK, NEW p \in Runs, run[p].at \in 1 .. Len(Steps(p))
  PROVE  /\ Now(p) \in StepSet /\ Now(p).each \in BOOLEAN /\ Now(p).again \in BOOLEAN
         /\ Now(p).silent \in BOOLEAN /\ Now(p).op \in Ops
         /\ (Now(p).again \/ Now(p).op = "until" \/ Now(p).fails = "note" => Now(p).each)
         /\ (Now(p).op \in Making /\ Now(p).file = "frame" => Now(p).each)
<1>1. Now(p) \in StepSet
  BY StepFacts DEF Now
<1>2. \A st \in StepSet : st.each \in BOOLEAN /\ st.again \in BOOLEAN /\ st.silent \in BOOLEAN /\ st.op \in Ops
  BY DEF StepSet
<1> QED
  BY <1>1, <1>2, StepFacts DEF Now

(* Nothing happens to the other run.                                       *)
Only(p) ==
  /\ \A q \in Runs : q # p => run'[q] = run[q]
  /\ run' = [q \in Runs |-> run'[q]]

LEMMA BecomesFacts ==
  ASSUME TypeOK, NEW p \in Runs, NEW r, Becomes(p, r)
  PROVE  run'[p] = r /\ Only(p)
BY DEF TypeOK, Becomes, Only

-----------------------------------------------------------------------------
(* What becomes of the state of a run, action by action.                   *)
Same(r, t) ==
  /\ t.n = r.n /\ t.told = r.told /\ t.got = r.got /\ t.noted = r.noted /\ t.alone = r.alone
  /\ t.slips = r.slips /\ t.missed = r.missed

Passes(r, t) ==
  /\ t.status = "working" /\ t.exit = r.exit /\ t.alone = r.alone /\ t.noted = r.noted
  /\ t.at = r.at + 1 /\ t.item = 1 /\ ~t.open

Stops(r, t) ==
  Same(r, t) /\ t.status = "ended" /\ t.exit = 1 /\ t.at = r.at /\ t.item = r.item /\ ~t.open

Stays(r, t) ==
  /\ t.status = "working" /\ t.exit = r.exit /\ t.alone = r.alone
  /\ t.at = r.at /\ t.n = r.n /\ t.told = r.told

(* A run at its next step, and one that has stopped.                       *)
LEMMA AfterFacts ==
  ASSUME NEW r \in RunState, r.status = "working"
  PROVE  /\ After(r) \in RunState /\ Passes(r, After(r)) /\ Same(r, After(r))
         /\ After(r).failed = r.failed
<1>1. 1 \in 1 .. MaxItems + 1 /\ r.at + 1 \in Nat
  BY ToolsAssumption DEF RunState
<1>2. After(r) \in RunState
  BY <1>1 DEF After, RunState
<1> QED
  BY <1>2 DEF After, RunState, Passes, Same

LEMMA StopFacts ==
  ASSUME NEW r \in RunState
  PROVE  StopWith(r) \in RunState /\ Stops(r, StopWith(r))
BY DEF StopWith, RunState, Stops, Same

(* The start of a command.                                                 *)
LEMMA ParseEffect ==
  ASSUME TypeOK, NEW p \in Runs, Parse(p)
  PROVE  /\ run[p].status = "idle" /\ (Follows(p) => EndedWell(1))
         /\ session' = session /\ disk' = disk /\ kills' = kills
         /\ run'[p] \in RunState /\ Only(p)
         /\ \/ run'[p].status = "working" /\ run'[p].exit = run[p].exit
            \/ run'[p].status = "ended" /\ run'[p].exit = 1
         /\ run'[p].alone = (run[Other(p)].status \in {"ended", "killed"})
         /\ run'[p].at = run[p].at /\ run'[p].item = run[p].item /\ run'[p].open = run[p].open
         /\ run'[p].n = run[p].n /\ run'[p].told = run[p].told /\ run'[p].got = run[p].got
         /\ run'[p].noted = run[p].noted /\ run'[p].slips = run[p].slips /\ run'[p].missed = run[p].missed
<1> DEFINE a == run[Other(p)].status \in {"ended", "killed"}
           r == [run[p] EXCEPT !.alone = a]
<1>1. run[p] \in RunState
  BY DEF TypeOK
<1>2. a \in BOOLEAN
  OBVIOUS
<1>3. \/ Becomes(p, [r EXCEPT !.status = "working"])
      \/ Becomes(p, [r EXCEPT !.status = "ended", !.exit = 1])
  BY DEF Parse
<1> HIDE DEF a
<1>4. /\ r \in RunState
      /\ r.at = run[p].at /\ r.item = run[p].item /\ r.open = run[p].open /\ r.exit = run[p].exit
      /\ r.n = run[p].n /\ r.told = run[p].told /\ r.got = run[p].got
      /\ r.noted = run[p].noted /\ r.slips = run[p].slips /\ r.missed = run[p].missed /\ r.alone = a
  BY <1>1, <1>2 DEF RunState
<1> HIDE DEF r
<1>5. CASE Becomes(p, [r EXCEPT !.status = "working"])
  <2>1. /\ run'[p] = [r EXCEPT !.status = "working"]
        /\ Only(p)
    BY <1>5, BecomesFacts
  <2>2. /\ run'[p] \in RunState /\ run'[p].status = "working" /\ run'[p].exit = r.exit /\ run'[p].alone = a
        /\ run'[p].at = r.at /\ run'[p].item = r.item /\ run'[p].open = r.open
        /\ run'[p].n = r.n /\ run'[p].told = r.told /\ run'[p].got = r.got
        /\ run'[p].noted = r.noted /\ run'[p].slips = r.slips /\ run'[p].missed = r.missed
    BY <1>4, <2>1 DEF RunState
  <2> QED
    BY <1>4, <2>1, <2>2 DEF Parse, KeepDisk, a, EndedWell
<1>6. CASE Becomes(p, [r EXCEPT !.status = "ended", !.exit = 1])
  <2>1. /\ run'[p] = [r EXCEPT !.status = "ended", !.exit = 1]
        /\ Only(p)
    BY <1>6, BecomesFacts
  <2>2. /\ run'[p] \in RunState /\ run'[p].status = "ended" /\ run'[p].exit = 1 /\ run'[p].alone = a
        /\ run'[p].at = r.at /\ run'[p].item = r.item /\ run'[p].open = r.open
        /\ run'[p].n = r.n /\ run'[p].told = r.told /\ run'[p].got = r.got
        /\ run'[p].noted = r.noted /\ run'[p].slips = r.slips /\ run'[p].missed = r.missed
    BY <1>4, <2>1 DEF RunState
  <2> QED
    BY <1>4, <2>1, <2>2 DEF Parse, KeepDisk, a, EndedWell
<1> QED
  BY <1>3, <1>5, <1>6

(* A step that is skipped, and one with no files of its own.               *)
LEMMA SkipEffect ==
  ASSUME TypeOK, NEW p \in Runs, Skip(p)
  PROVE  /\ run[p].status = "working" /\ run[p].at <= Len(Steps(p)) /\ ~run[p].open /\ run[p].item = 1
         /\ session' = session /\ disk' = disk /\ kills' = kills
         /\ run'[p] \in RunState /\ Only(p)
         /\ Passes(run[p], run'[p]) /\ Same(run[p], run'[p])
         /\ \/ ~Due(p) /\ run'[p].failed = run[p].failed
            \/ Now(p).when = "maybe"
<1>1. run[p] \in RunState /\ run[p].status = "working"
  BY DEF TypeOK, Skip
<1>2. /\ After(run[p]) \in RunState /\ Passes(run[p], After(run[p])) /\ Same(run[p], After(run[p]))
      /\ After(run[p]).failed = run[p].failed
  BY <1>1, AfterFacts
<1> DEFINE t == [After(run[p]) EXCEPT !.failed = FALSE]
<1>3. t \in RunState /\ Passes(run[p], t) /\ Same(run[p], t)
  BY <1>2 DEF RunState, Passes, Same
<1> HIDE DEF t
<1>4. CASE ~Due(p) /\ Becomes(p, After(run[p]))
  BY <1>2, <1>4, BecomesFacts DEF Skip, KeepDisk
<1>5. CASE Now(p).when = "maybe" /\ Becomes(p, t)
  BY <1>3, <1>5, BecomesFacts DEF Skip, KeepDisk
<1> QED
  BY <1>4, <1>5 DEF Skip, t

Quietly(p) ==
  /\ run[p].status = "working" /\ run[p].at <= Len(Steps(p))
  /\ session' = session /\ disk' = disk /\ kills' = kills
  /\ run'[p] \in RunState /\ Only(p)

LEMMA QuietEffect ==
  ASSUME TypeOK, NEW p \in Runs, run[p].status = "working", run[p].at <= Len(Steps(p)), KeepDisk,
         Becomes(p, After(run[p])) \/ Becomes(p, StopWith(run[p]))
  PROVE  /\ Quietly(p)
         /\ \/ Passes(run[p], run'[p]) /\ Same(run[p], run'[p]) /\ run'[p].failed = run[p].failed
            \/ Stops(run[p], run'[p])
<1>1. run[p] \in RunState
  BY DEF TypeOK
<1>2. CASE Becomes(p, After(run[p]))
  BY <1>1, <1>2, AfterFacts, BecomesFacts DEF Quietly, KeepDisk
<1>3. CASE Becomes(p, StopWith(run[p]))
  BY <1>1, <1>3, StopFacts, BecomesFacts DEF Quietly, KeepDisk
<1> QED
  BY <1>2, <1>3

(* Checks and inputs; the end for an earlier failure; lists, tallies; what *)
(* is removed.                                                             *)
LEMMA LooksEffect ==
  ASSUME TypeOK, NEW p \in Runs, Looks(p) \/ Needs(p)
  PROVE  /\ Quietly(p) /\ Now(p).op \in {"check", "input", "need"}
         /\ \/ Passes(run[p], run'[p]) /\ Same(run[p], run'[p]) /\ run'[p].failed = run[p].failed
            \/ Stops(run[p], run'[p])
<1>1. /\ run[p].status = "working" /\ run[p].at <= Len(Steps(p)) /\ KeepDisk
      /\ Becomes(p, After(run[p])) \/ Becomes(p, StopWith(run[p]))
      /\ Now(p).op \in {"check", "input", "need"}
  BY DEF Looks, Needs, At, Now
<1> QED
  BY <1>1, QuietEffect

LEMMA AbortsEffect ==
  ASSUME TypeOK, NEW p \in Runs, Aborts(p)
  PROVE  Quietly(p) /\ Now(p).op = "abort" /\ Stops(run[p], run'[p])
<1>1. /\ run[p].status = "working" /\ run[p].at <= Len(Steps(p)) /\ KeepDisk
      /\ Becomes(p, StopWith(run[p])) /\ Now(p).op = "abort"
  BY DEF Aborts, At, Now
<1>2. run[p] \in RunState
  BY DEF TypeOK
<1> QED
  BY <1>1, <1>2, QuietEffect, StopFacts, BecomesFacts

LEMMA ListsEffect ==
  ASSUME TypeOK, NEW p \in Runs, Lists(p),
         TakesFrames(p) => Cardinality(Given(p)) \in 0 .. MaxItems
  PROVE  /\ Quietly(p) /\ Now(p).op = "list" /\ Due(p)
         /\ \/ /\ Passes(run[p], run'[p]) /\ run'[p].failed = run[p].failed
               /\ run'[p].told = run[p].told /\ run'[p].got = run[p].got
               /\ run'[p].slips = run[p].slips /\ run'[p].missed = run[p].missed
               /\ TakesFrames(p) => run'[p].n = Cardinality(Given(p))
               /\ run'[p].n = 0 => Now(p).fails # "stop"
            \/ Stops(run[p], run'[p])
<1>1. /\ run[p].status = "working" /\ run[p].at <= Len(Steps(p)) /\ KeepDisk
      /\ Now(p).op = "list" /\ run[p] \in RunState /\ Due(p)
  BY DEF Lists, At, Now, TypeOK
<1>2. PICK n \in (IF TakesFrames(p) THEN {Cardinality(Given(p))} ELSE 0 .. MaxItems) :
        Becomes(p, IF n = 0 /\ Now(p).fails = "stop" THEN StopWith(run[p])
                   ELSE [After(run[p]) EXCEPT !.n = n])
  BY DEF Lists
<1>3. n \in 0 .. MaxItems /\ (TakesFrames(p) => n = Cardinality(Given(p)))
  BY <1>2
<1>4. CASE n = 0 /\ Now(p).fails = "stop"
  <2>1. Becomes(p, StopWith(run[p]))
    BY <1>2, <1>4
  <2>2. Stops(run[p], run'[p])
    BY <1>1, <2>1, StopFacts, BecomesFacts
  <2> QED
    BY <1>1, <2>1, <2>2, QuietEffect
<1>5. CASE ~(n = 0 /\ Now(p).fails = "stop")
  <2> DEFINE a == After(run[p])
             t == [a EXCEPT !.n = n]
  <2>1. a \in RunState /\ Passes(run[p], a) /\ Same(run[p], a) /\ a.failed = run[p].failed
    BY <1>1, AfterFacts
  <2>2. Becomes(p, t)
    BY <1>2, <1>5
  <2> HIDE DEF a
  <2>3. /\ t \in RunState /\ Passes(run[p], t) /\ t.failed = run[p].failed /\ t.n = n
        /\ t.told = run[p].told /\ t.got = run[p].got /\ t.slips = run[p].slips /\ t.missed = run[p].missed
    BY <1>3, <2>1 DEF RunState, Passes, Same
  <2> HIDE DEF t
  <2>4. run'[p] = t /\ Only(p)
    BY <2>2, BecomesFacts
  <2> QED
    BY <1>1, <1>3, <1>5, <2>3, <2>4 DEF Quietly, KeepDisk
<1> QED
  BY <1>4, <1>5

LEMMA StraysFacts ==
  ASSUME TypeOK, NEW p \in Runs
  PROVE  Strays(p) \in Nat /\ run[p].n \in Nat /\ run[p].n + Strays(p) \in Nat
<1>1. session.strays \in [Runs -> 0 .. MaxItems]
  BY ToolsAssumption DEF TypeOK, Session
<1>2. session.strays[p] \in Nat
  BY <1>1, ToolsAssumption
<1>3. run[p].n \in Nat
  <2>1. run[p] \in RunState
    BY DEF TypeOK
  <2> QED
    BY <2>1, ToolsAssumption DEF RunState
<1> QED
  BY <1>2, <1>3 DEF Strays

LEMMA CountsEffect ==
  ASSUME TypeOK, NEW p \in Runs, Counts(p), IsFiniteSet(DOMAIN disk)
  PROVE  /\ Quietly(p) /\ Passes(run[p], run'[p]) /\ run'[p].failed = run[p].failed
         /\ run'[p].n = run[p].n /\ run'[p].got = run[p].got /\ run'[p].slips = run[p].slips /\ run'[p].missed = run[p].missed
         /\ \/ Now(p).op = "tally" /\ run'[p].told = Cardinality(Made(p))
            \/ Now(p).op = "report" /\ run'[p].told = run[p].n + Strays(p)
            \/ Now(p).op = "count"
<1>1. /\ run[p].status = "working" /\ run[p].at <= Len(Steps(p)) /\ KeepDisk /\ run[p] \in RunState
  BY DEF Counts, At, Now, TypeOK
<1>2. Cardinality(Made(p)) \in Nat /\ run[p].n + Strays(p) \in Nat /\ run[p].got \in Nat
  <2>1. IsFiniteSet(Made(p))
    BY FS_Subset DEF Made
  <2> QED
    BY <1>1, <2>1, StraysFacts, FS_CardinalityType DEF RunState
<1>3. PICK m \in Nat :
        /\ Becomes(p, [After(run[p]) EXCEPT !.told = m])
        /\ \/ Now(p).op = "tally" /\ m = Cardinality(Made(p))
           \/ Now(p).op = "report" /\ m = run[p].n + Strays(p)
           \/ Now(p).op = "count"
  BY <1>2 DEF Counts, At, Now
<1> DEFINE a == After(run[p])
           t == [a EXCEPT !.told = m]
<1>4. a \in RunState /\ Passes(run[p], a) /\ Same(run[p], a) /\ a.failed = run[p].failed
  BY <1>1, AfterFacts
<1>5. Becomes(p, t)
  BY <1>3
<1> HIDE DEF a
<1>6. /\ t \in RunState /\ Passes(run[p], t) /\ t.failed = run[p].failed /\ t.n = run[p].n
      /\ t.told = m /\ t.got = run[p].got /\ t.slips = run[p].slips /\ t.missed = run[p].missed
  BY <1>4 DEF RunState, Passes, Same
<1> HIDE DEF t
<1>7. run'[p] = t /\ Only(p)
  BY <1>5, BecomesFacts
<1> QED
  BY <1>1, <1>3, <1>6, <1>7 DEF Quietly, KeepDisk

LEMMA RemovesEffect ==
  ASSUME TypeOK, NEW p \in Runs, Removes(p)
  PROVE  /\ run[p].status = "working" /\ run[p].at <= Len(Steps(p)) /\ Now(p).op = "remove"
         /\ session' = session /\ kills' = kills
         /\ run'[p] \in RunState /\ Only(p)
         /\ Passes(run[p], run'[p]) /\ Same(run[p], run'[p]) /\ run'[p].failed = run[p].failed
         /\ DOMAIN disk' = DOMAIN disk \ {File(p, Now(p).file, 0)}
         /\ \A f \in DOMAIN disk' : disk'[f] = disk[f]
<1>1. /\ run[p].status = "working" /\ run[p].at <= Len(Steps(p)) /\ run[p] \in RunState
      /\ Becomes(p, After(run[p])) /\ Now(p).op = "remove"
  BY DEF Removes, At, Now, TypeOK
<1> QED
  BY <1>1, AfterFacts, BecomesFacts DEF Removes

(* Making files.                                                           *)
AtMake(p) ==
  /\ run[p].status = "working" /\ run[p].at <= Len(Steps(p)) /\ Now(p).op \in Making /\ Due(p)

Wrote(f, s, q, i) ==
  /\ DOMAIN disk' = DOMAIN disk \cup {f}
  /\ disk'[f] = [state |-> s, of |-> q, item |-> i]
  /\ \A g \in DOMAIN disk : g # f => disk'[g] = disk[g]

LEMMA PutEffect == ASSUME NEW f, NEW s, NEW q, NEW i, Put(f, s, q, i) PROVE Wrote(f, s, q, i)
BY DEF Put, Wrote

LEMMA MakesFacts == ASSUME NEW p \in Runs, Makes(p) PROVE AtMake(p)
BY DEF Makes, AtMake, At, Now, Making

(* The rest of what a run remembers.                                       *)
Remembers(r, t) == t.n = r.n /\ t.told = r.told /\ t.noted = r.noted

(* A file is opened, closed, or lost in a stream; all items are through.   *)
LEMMA OnwardFacts ==
  ASSUME TypeOK, NEW p \in Runs, AtMake(p), run[p].at \in Nat \ {0},
         NEW r \in RunState, r.status = "working", r.item <= MaxItems
  PROVE  LET t == Onward(p, r)
         IN  /\ t \in RunState /\ Remembers(r, t) /\ t.slips = r.slips /\ t.missed = r.missed /\ t.failed = r.failed
             /\ \/ Passes(r, t) /\ (~Now(p).each \/ Now(p).op = "until")
                \/ /\ Stays(r, t) /\ ~t.open /\ Now(p).each /\ Now(p).op = "make"
                   /\ t.item = IF Now(p).again THEN r.item ELSE r.item + 1
<1> DEFINE t == Onward(p, r)
           a == After(r)
<1>1. Now(p).each \in BOOLEAN /\ Now(p).again \in BOOLEAN /\ Now(p).op \in {"make", "until"}
  BY NowFacts, StepFacts DEF AtMake, Making
<1>2. a \in RunState /\ Passes(r, a) /\ Same(r, a) /\ a.failed = r.failed
  BY AfterFacts
<1>3. At(p, "until") <=> Now(p).op = "until"
  BY DEF At, AtMake, Now
<1> HIDE DEF a
<1>4. CASE Now(p).op = "until"
  <2>1. t = a
    BY <1>3, <1>4 DEF Onward, a
  <2> HIDE DEF t
  <2> QED
    BY <1>2, <1>4, <2>1 DEF Remembers, Same, Passes, t
<1>5. CASE Now(p).op = "make" /\ ~Now(p).each
  <2>1. t = [a EXCEPT !.got = @ + 1]
    BY <1>3, <1>5 DEF Onward, a
  <2>2. /\ [a EXCEPT !.got = @ + 1] \in RunState /\ Passes(r, [a EXCEPT !.got = @ + 1])
        /\ Remembers(r, [a EXCEPT !.got = @ + 1])
        /\ [a EXCEPT !.got = @ + 1].slips = r.slips /\ [a EXCEPT !.got = @ + 1].missed = r.missed /\ [a EXCEPT !.got = @ + 1].failed = r.failed
    BY <1>2 DEF Remembers, Same, Passes, RunState
  <2> HIDE DEF t
  <2> QED
    BY <1>5, <2>1, <2>2 DEF t
<1>6. CASE Now(p).op = "make" /\ Now(p).each
  <2> DEFINE i == IF Now(p).again THEN r.item ELSE r.item + 1
             g == IF Now(p).fails = "go" /\ ~Now(p).again THEN r.got + 1 ELSE r.got
  <2>1. t = [r EXCEPT !.open = FALSE, !.item = i, !.got = g]
    BY <1>3, <1>6 DEF Onward
  <2>2. i \in 1 .. MaxItems + 1 /\ g \in Nat
    BY <1>1, ToolsAssumption DEF RunState
  <2> HIDE DEF i, g, t
  <2>3. t \in RunState /\ t.item = i /\ Remembers(r, t) /\ t.slips = r.slips /\ t.missed = r.missed /\ t.failed = r.failed
    BY <2>1, <2>2 DEF Remembers, RunState
  <2>4. Stays(r, t) /\ ~t.open
    BY <2>1, <2>2 DEF Stays, RunState
  <2> QED
    BY <1>6, <2>3, <2>4 DEF t, i
<1> QED
  BY <1>1, <1>4, <1>5, <1>6

LEMMA OpensEffect ==
  ASSUME TypeOK, NEW p \in Runs, Opens(p)
  PROVE  /\ AtMake(p) /\ ~run[p].open /\ run[p].item <= Items(p)
         /\ session' = session /\ kills' = kills /\ Wrote(Target(p), "torn", p, Number(p))
         /\ run'[p] \in RunState /\ Only(p)
         /\ Stays(run[p], run'[p]) /\ Same(run[p], run'[p]) /\ run'[p].failed = run[p].failed
         /\ run'[p].item = run[p].item /\ run'[p].open
<1>1. run[p] \in RunState /\ AtMake(p)
  BY MakesFacts DEF TypeOK, Opens
<1> DEFINE t == [run[p] EXCEPT !.open = TRUE]
<1>2. /\ t \in RunState /\ Stays(run[p], t) /\ Same(run[p], t) /\ t.failed = run[p].failed
      /\ t.item = run[p].item /\ t.open
  BY <1>1 DEF AtMake, RunState, Stays, Same
<1>3. Becomes(p, t)
  BY DEF Opens
<1> HIDE DEF t
<1> QED
  BY <1>1, <1>2, <1>3, BecomesFacts, PutEffect DEF Opens

LEMMA ExhaustedEffect ==
  ASSUME TypeOK, NEW p \in Runs, Exhausted(p)
  PROVE  /\ AtMake(p) /\ ~run[p].open /\ run[p].item > Items(p) /\ Quietly(p)
         /\ \/ Stops(run[p], run'[p])
            \/ /\ Passes(run[p], run'[p]) /\ Remembers(run[p], run'[p])
               /\ run'[p].slips = run[p].slips /\ run'[p].missed = run[p].missed
               /\ run'[p].got = run[p].got \/ (Now(p).each /\ run[p].n > 0)
               /\ run'[p].failed = run[p].failed \/ (Now(p).each /\ run'[p].failed = FALSE)
               /\ Now(p).op # "until"
<1>1. run[p] \in RunState /\ AtMake(p) /\ run[p].status = "working"
  BY MakesFacts DEF TypeOK, Exhausted, AtMake
<1> DEFINE a == After(run[p])
           t == [a EXCEPT !.got = @ + 1, !.failed = FALSE]
<1>2. a \in RunState /\ Passes(run[p], a) /\ Same(run[p], a) /\ a.failed = run[p].failed
  BY <1>1, AfterFacts
<1>3. \/ Becomes(p, StopWith(run[p]))
      \/ Now(p).each /\ run[p].n > 0 /\ Becomes(p, t) /\ ~At(p, "until")
      \/ Becomes(p, a) /\ ~At(p, "until")
  BY DEF Exhausted, Items
<1>4. At(p, "until") <=> Now(p).op = "until"
  BY <1>1 DEF At, AtMake, Now
<1> HIDE DEF a
<1>5. /\ t \in RunState /\ Passes(run[p], t) /\ Remembers(run[p], t)
      /\ t.slips = run[p].slips /\ t.missed = run[p].missed /\ t.failed = FALSE
  <2>1. a.got + 1 \in Nat
    BY <1>2 DEF RunState
  <2>2. t \in RunState
    BY <1>2, <2>1 DEF RunState
  <2>3. t.slips = a.slips /\ t.missed = a.missed /\ t.failed = FALSE
    BY <1>2 DEF RunState
  <2> QED
    BY <1>2, <2>2, <2>3 DEF RunState, Passes, Same, Remembers
<1> HIDE DEF t
<1>6. /\ ~run[p].open /\ run[p].item > Items(p) /\ session' = session /\ disk' = disk /\ kills' = kills
  BY DEF Exhausted, KeepDisk
<1>7. CASE Becomes(p, StopWith(run[p]))
  BY <1>1, <1>6, <1>7, StopFacts, BecomesFacts DEF Quietly, AtMake
<1>8. CASE Now(p).each /\ run[p].n > 0 /\ Becomes(p, t) /\ ~At(p, "until")
  BY <1>1, <1>4, <1>5, <1>6, <1>8, BecomesFacts DEF Quietly, AtMake
<1>9. CASE Becomes(p, a) /\ ~At(p, "until")
  BY <1>1, <1>2, <1>4, <1>6, <1>9, BecomesFacts DEF Quietly, AtMake, Same, Remembers, Passes
<1> QED
  BY <1>3, <1>7, <1>8, <1>9

LEMMA ClosesEffect ==
  ASSUME TypeOK, NEW p \in Runs, Closes(p), run[p].item <= Items(p), run[p].at \in Nat \ {0}
  PROVE  LET mine  == /\ Target(p) \in DOMAIN disk
                      /\ disk[Target(p)] = [state |-> "torn", of |-> p, item |-> Number(p)]
             state == IF mine /\ SoundSources(p) THEN "whole" ELSE "spoiled"
         IN  /\ AtMake(p) /\ run[p].open /\ Maker(p) # 0
             /\ session' = session /\ kills' = kills /\ Wrote(Target(p), state, Maker(p), Number(p))
             /\ run'[p] \in RunState /\ Only(p)
             /\ Remembers(run[p], run'[p]) /\ run'[p].slips = run[p].slips /\ run'[p].missed = run[p].missed
             /\ \/ run'[p].failed = run[p].failed
                \/ Now(p).fails = "next" /\ run'[p].failed = FALSE
             /\ \/ Passes(run[p], run'[p]) /\ (~Now(p).each \/ Now(p).op = "until")
                \/ /\ Stays(run[p], run'[p]) /\ ~run'[p].open /\ Now(p).each /\ Now(p).op = "make"
                   /\ run'[p].item = IF Now(p).again THEN run[p].item ELSE run[p].item + 1
<1> DEFINE b == IF Now(p).fails = "next" THEN FALSE ELSE run[p].failed
           r == [run[p] EXCEPT !.failed = b]
           t == Onward(p, r)
<1>1. run[p] \in RunState /\ AtMake(p) /\ run[p].status = "working"
  BY MakesFacts DEF TypeOK, Closes, AtMake
<1>2. b \in BOOLEAN
  BY <1>1 DEF RunState
<1>3. Becomes(p, t)
  BY DEF Closes
<1> HIDE DEF b
<1>4. /\ r \in RunState /\ r.status = "working" /\ r.item = run[p].item /\ r.failed = b
      /\ r.at = run[p].at /\ r.exit = run[p].exit /\ r.alone = run[p].alone
      /\ Remembers(run[p], r) /\ r.slips = run[p].slips /\ r.missed = run[p].missed
  BY <1>1, <1>2 DEF RunState, Remembers
<1> HIDE DEF r
<1>5. run[p].item <= MaxItems
  BY <1>1, ToolsAssumption DEF Items, RunState
<1>6. /\ t \in RunState /\ Remembers(r, t) /\ t.slips = r.slips /\ t.missed = r.missed /\ t.failed = r.failed
      /\ \/ Passes(r, t) /\ (~Now(p).each \/ Now(p).op = "until")
         \/ /\ Stays(r, t) /\ ~t.open /\ Now(p).each /\ Now(p).op = "make"
            /\ t.item = IF Now(p).again THEN r.item ELSE r.item + 1
  BY <1>1, <1>4, <1>5, OnwardFacts
<1> HIDE DEF t
<1>7. run'[p] = t /\ Only(p)
  BY <1>3, BecomesFacts
<1>8. /\ Remembers(run[p], t) /\ t.slips = run[p].slips /\ t.missed = run[p].missed /\ t.failed = b
      /\ \/ Passes(run[p], t) /\ (~Now(p).each \/ Now(p).op = "until")
         \/ /\ Stays(run[p], t) /\ ~t.open /\ Now(p).each /\ Now(p).op = "make"
            /\ t.item = IF Now(p).again THEN run[p].item ELSE run[p].item + 1
  BY <1>4, <1>6 DEF Remembers, Passes, Stays
<1>9. t.failed = run[p].failed \/ (Now(p).fails = "next" /\ t.failed = FALSE)
  BY <1>8 DEF b
<1> QED
  BY <1>1, <1>6, <1>7, <1>8, <1>9, PutEffect DEF Closes

LEMMA SlipsEffect ==
  ASSUME TypeOK, NEW p \in Runs, Slips(p), run[p].item <= Items(p), run[p].at \in Nat \ {0}
  PROVE  /\ AtMake(p) /\ run[p].open /\ Quietly(p) /\ run'[p].slips
         /\ Remembers(run[p], run'[p])
         /\ \/ Passes(run[p], run'[p]) /\ (~Now(p).each \/ Now(p).op = "until")
            \/ /\ Stays(run[p], run'[p]) /\ ~run'[p].open /\ Now(p).each /\ Now(p).op = "make"
               /\ run'[p].item = IF Now(p).again THEN run[p].item ELSE run[p].item + 1
<1> DEFINE r == [run[p] EXCEPT !.slips = TRUE]
           t == Onward(p, r)
<1>1. run[p] \in RunState /\ AtMake(p) /\ run[p].status = "working" /\ run[p].open
  BY MakesFacts DEF TypeOK, Slips, AtMake
<1>2. /\ Becomes(p, t) /\ session' = session /\ disk' = disk /\ kills' = kills
  BY DEF Slips, KeepDisk
<1>3. /\ r \in RunState /\ r.status = "working" /\ r.item = run[p].item /\ r.slips
      /\ r.at = run[p].at /\ r.exit = run[p].exit /\ r.alone = run[p].alone
      /\ Remembers(run[p], r)
  BY <1>1 DEF RunState, Remembers
<1> HIDE DEF r
<1>4. run[p].item <= MaxItems
  BY <1>1, ToolsAssumption DEF Items, RunState
<1>5. /\ t \in RunState /\ Remembers(r, t) /\ t.slips = r.slips /\ t.missed = r.missed
      /\ \/ Passes(r, t) /\ (~Now(p).each \/ Now(p).op = "until")
         \/ /\ Stays(r, t) /\ ~t.open /\ Now(p).each /\ Now(p).op = "make"
            /\ t.item = IF Now(p).again THEN r.item ELSE r.item + 1
  BY <1>1, <1>3, <1>4, OnwardFacts
<1> HIDE DEF t
<1>6. run'[p] = t /\ Only(p)
  BY <1>2, BecomesFacts
<1>7. /\ Remembers(run[p], t) /\ t.slips
      /\ \/ Passes(run[p], t) /\ (~Now(p).each \/ Now(p).op = "until")
         \/ /\ Stays(run[p], t) /\ ~t.open /\ Now(p).each /\ Now(p).op = "make"
            /\ t.item = IF Now(p).again THEN run[p].item ELSE run[p].item + 1
  BY <1>3, <1>5 DEF Remembers, Passes, Stays
<1> QED
  BY <1>1, <1>2, <1>5, <1>6, <1>7 DEF Quietly, AtMake

(* A failure: the end, the next step, the next item, or the same again.    *)
LEMMA FailsEffect ==
  ASSUME TypeOK, NEW p \in Runs, Fails(p), run[p].item <= Items(p), run[p].at \in 1 .. Len(Steps(p))
  PROVE  /\ AtMake(p) /\ run[p].open /\ Quietly(p)
         /\ \/ Stops(run[p], run'[p]) /\ Now(p).op = "make" /\ Now(p).fails = "stop"
            \/ /\ Passes(run[p], run'[p]) /\ Same(run[p], run'[p]) /\ run'[p].failed
               /\ Now(p).op = "make" /\ Now(p).fails = "next"
            \/ /\ Passes(run[p], run'[p]) /\ run'[p].failed = run[p].failed /\ run'[p].missed
               /\ run'[p].n = run[p].n /\ run'[p].told = run[p].told /\ run'[p].got = run[p].got
               /\ run'[p].noted = run[p].noted /\ run'[p].slips = run[p].slips
               /\ Now(p).op = "make" /\ Now(p).fails = "go" /\ ~Now(p).each
            \/ /\ Stays(run[p], run'[p]) /\ ~run'[p].open /\ run'[p].failed = run[p].failed
               /\ run'[p].slips = run[p].slips /\ run'[p].got = run[p].got /\ Now(p).each
               /\ run[p].missed => run'[p].missed
               /\ \/ run'[p].item = run[p].item + 1 /\ run'[p].noted /\ Now(p).fails = "note"
                  \/ /\ run'[p].item = run[p].item + 1 /\ run'[p].noted = run[p].noted
                     /\ Now(p).op = "until" \/ (Now(p).each /\ Now(p).fails = "go")
                  \/ /\ run'[p].item = run[p].item /\ run'[p].noted = run[p].noted
                     /\ Now(p).each /\ Now(p).again
<1> DEFINE r == run[p]
           m == [r EXCEPT !.missed = TRUE]
           a == After(m)
           u == NextItem(r)
           um == NextItem(m)
           w == [m EXCEPT !.open = FALSE]
           v == [u EXCEPT !.noted = TRUE]
           f == [After(r) EXCEPT !.failed = TRUE]
<1>1. r \in RunState /\ AtMake(p) /\ r.status = "working" /\ r.open /\ r.item \in 1 .. MaxItems
  BY MakesFacts, ToolsAssumption DEF TypeOK, Fails, AtMake, Items, RunState
<1>2. session' = session /\ disk' = disk /\ kills' = kills
  BY DEF Fails, KeepDisk
<1>3. /\ Now(p).op \in {"make", "until"} /\ Now(p).fails \in {"stop", "next", "go", "note"}
      /\ (Now(p).again => Now(p).each) /\ Now(p).each \in BOOLEAN /\ Now(p).again \in BOOLEAN
      /\ (Now(p).op = "until" \/ Now(p).fails = "note" => Now(p).each)
  BY <1>1, NowFacts DEF AtMake, Making, StepSet
<1>4. /\ m \in RunState /\ m.missed /\ m.status = "working" /\ m.failed = r.failed /\ m.slips = r.slips
      /\ m.n = r.n /\ m.told = r.told /\ m.got = r.got /\ m.noted = r.noted /\ m.alone = r.alone
      /\ m.at = r.at /\ m.item = r.item /\ m.exit = r.exit
  BY <1>1 DEF RunState
<1>5. StopWith(r) \in RunState /\ Stops(r, StopWith(r))
  BY <1>1, StopFacts
<1>6. u \in RunState /\ Stays(r, u) /\ Same(r, u) /\ ~u.open /\ u.item = r.item + 1 /\ u.failed = r.failed
  <2>1. r.item + 1 \in 1 .. MaxItems + 1
    BY <1>1, ToolsAssumption
  <2> QED
    BY <1>1, <2>1 DEF NextItem, RunState, Stays, Same
<1> HIDE DEF m
<1>7. /\ w \in RunState /\ Stays(r, w) /\ ~w.open /\ w.item = r.item /\ w.failed = r.failed
      /\ w.slips = r.slips /\ w.missed /\ w.got = r.got /\ w.noted = r.noted
  BY <1>1, <1>4 DEF RunState, Stays
<1>16. /\ um \in RunState /\ Stays(r, um) /\ ~um.open /\ um.item = r.item + 1 /\ um.failed = r.failed
       /\ um.slips = r.slips /\ um.missed /\ um.got = r.got /\ um.noted = r.noted
  <2>1. m.item + 1 \in 1 .. MaxItems + 1
    BY <1>1, <1>4, ToolsAssumption
  <2> QED
    BY <1>1, <1>4, <2>1 DEF NextItem, RunState, Stays
<1>17. /\ a \in RunState /\ Passes(r, a) /\ a.failed = r.failed /\ a.missed
       /\ a.n = r.n /\ a.told = r.told /\ a.got = r.got /\ a.noted = r.noted /\ a.slips = r.slips
  <2>1. a \in RunState /\ Passes(m, a) /\ Same(m, a) /\ a.failed = m.failed
    BY <1>4, AfterFacts
  <2> HIDE DEF a
  <2> QED
    BY <1>4, <2>1 DEF Passes, Same
<1>8. /\ v \in RunState /\ Stays(r, v) /\ ~v.open /\ v.item = r.item + 1 /\ v.failed = r.failed
      /\ v.slips = r.slips /\ v.missed = r.missed /\ v.got = r.got /\ v.noted
  <2> HIDE DEF u
  <2> QED
    BY <1>6 DEF RunState, Stays, Same
<1>9. f \in RunState /\ Passes(r, f) /\ Same(r, f) /\ f.failed
  <2>1. After(r) \in RunState /\ Passes(r, After(r)) /\ Same(r, After(r))
    BY <1>1, AfterFacts
  <2> QED
    BY <2>1 DEF RunState, Passes, Same
<1>10. \/ Becomes(p, u) /\ Now(p).op = "until"
       \/ Becomes(p, um) /\ Now(p).each /\ Now(p).fails = "go"
       \/ Becomes(p, StopWith(r)) /\ Now(p).op = "make" /\ Now(p).fails = "stop"
       \/ Becomes(p, f) /\ Now(p).op = "make" /\ Now(p).fails = "next"
       \/ Becomes(p, v) /\ Now(p).fails = "note"
       \/ Becomes(p, w) /\ Now(p).each /\ Now(p).again
       \/ Becomes(p, a) /\ Now(p).op = "make" /\ Now(p).fails = "go" /\ ~Now(p).each
  <2> DEFINE g == IF Now(p).again THEN w ELSE IF Now(p).each THEN um ELSE a
             t == IF Now(p).op = "until" THEN u
                  ELSE CASE Now(p).fails = "stop" -> StopWith(r)
                         [] Now(p).fails = "next" -> f
                         [] Now(p).fails = "note" -> v
                         [] Now(p).fails = "go"   -> g
  <2>1. Becomes(p, t)
    BY DEF Fails, m
  <2> HIDE DEF u, um, w, v, f, g, a
  <2>2. CASE Now(p).op = "until"
    BY <2>1, <2>2
  <2>3. CASE Now(p).op = "make" /\ Now(p).fails = "stop"
    BY <2>1, <2>3
  <2>4. CASE Now(p).op = "make" /\ Now(p).fails = "next"
    BY <2>1, <2>4
  <2>5. CASE Now(p).op = "make" /\ Now(p).fails = "note"
    BY <2>1, <2>5
  <2>6. CASE Now(p).op = "make" /\ Now(p).fails = "go"
    <3>1. Becomes(p, g)
      BY <2>1, <2>6
    <3> QED
      BY <1>3, <2>6, <3>1 DEF g
  <2> HIDE DEF t
  <2> QED
    BY <1>3, <2>2, <2>3, <2>4, <2>5, <2>6
<1> HIDE DEF u, um, w, v, f, a
<1>11. AtMake(p) /\ run[p].open
  BY <1>1
<1>12. \A t : Becomes(p, t) => run'[p] = t /\ Only(p)
  BY BecomesFacts
<1>13. \A t \in RunState : Becomes(p, t) => Quietly(p) /\ run'[p] = t
  BY <1>1, <1>2, <1>12 DEF Quietly, AtMake
<1>18. CASE Becomes(p, u) /\ Now(p).op = "until"
  BY <1>3, <1>6, <1>11, <1>13, <1>18 DEF Same
<1>19. CASE Becomes(p, um) /\ Now(p).each /\ Now(p).fails = "go"
  BY <1>11, <1>13, <1>16, <1>19
<1>20. CASE Becomes(p, v) /\ Now(p).fails = "note"
  BY <1>3, <1>8, <1>11, <1>13, <1>20
<1>21. CASE Becomes(p, w) /\ Now(p).each /\ Now(p).again
  BY <1>7, <1>11, <1>13, <1>21
<1>22. CASE Becomes(p, a) /\ Now(p).op = "make" /\ Now(p).fails = "go" /\ ~Now(p).each
  BY <1>11, <1>13, <1>17, <1>22
<1>23. CASE Becomes(p, StopWith(r)) /\ Now(p).op = "make" /\ Now(p).fails = "stop"
  BY <1>5, <1>11, <1>13, <1>23
<1>24. CASE Becomes(p, f) /\ Now(p).op = "make" /\ Now(p).fails = "next"
  BY <1>9, <1>11, <1>13, <1>24
<1> QED
  BY <1>10, <1>18, <1>19, <1>20, <1>21, <1>22, <1>23, <1>24

(* The end of a script, and that of a killed run.                          *)
LEMMA EndsEffect ==
  ASSUME TypeOK, NEW p \in Runs, Ends(p)
  PROVE  /\ run[p].status = "working" /\ run[p].at = Len(Steps(p)) + 1
         /\ session' = session /\ disk' = disk /\ kills' = kills
         /\ run'[p] \in RunState /\ Only(p)
         /\ Same(run[p], run'[p]) /\ run'[p].status = "ended" /\ run'[p].exit \in {0, 1}
         /\ run'[p].at = run[p].at /\ run'[p].item = run[p].item /\ run'[p].open = run[p].open
         /\ run'[p].failed = run[p].failed
         /\ run'[p].exit = 0 => Script(p).exit = "always" \/ Succeeds(p)
<1>1. run[p] \in RunState
  BY DEF TypeOK
<1>2. PICK e \in {0, 1} :
        /\ e = 0 => Script(p).exit = "always" \/ Succeeds(p)
        /\ Becomes(p, [run[p] EXCEPT !.status = "ended", !.exit = e])
  <2> DEFINE ends(e) == Becomes(p, [run[p] EXCEPT !.status = "ended", !.exit = e])
             passes(e) == CASE Script(p).exit = "always"  -> e = 0
                            [] Script(p).exit = "verdict" -> Succeeds(p) \/ e = 1
                            [] OTHER                      -> e = IF Succeeds(p) THEN 0 ELSE 1
  <2>1. PICK e \in {0, 1} : passes(e) /\ ends(e)
    BY DEF Ends
  <2>2. e = 0 => Script(p).exit = "always" \/ Succeeds(p)
    <3>1. CASE Script(p).exit = "always"
      BY <3>1
    <3>2. CASE Script(p).exit = "verdict"
      BY <2>1, <3>2
    <3>3. CASE Script(p).exit \notin {"always", "verdict"}
      <4>1. passes(e) = (e = IF Succeeds(p) THEN 0 ELSE 1)
        BY <3>3
      <4> QED
        BY <2>1, <4>1
    <3> QED
      BY <3>1, <3>2, <3>3
  <2> HIDE DEF ends
  <2>3. WITNESS e \in {0, 1}
  <2> QED
    BY <2>1, <2>2 DEF ends
<1> DEFINE t == [run[p] EXCEPT !.status = "ended", !.exit = e]
<1>3. /\ t \in RunState /\ Same(run[p], t) /\ t.status = "ended" /\ t.exit = e
      /\ t.at = run[p].at /\ t.item = run[p].item /\ t.open = run[p].open /\ t.failed = run[p].failed
  BY <1>1 DEF RunState, Same
<1>4. run'[p] = t /\ Only(p)
  BY <1>2, BecomesFacts
<1> HIDE DEF t
<1> QED
  BY <1>2, <1>3, <1>4 DEF Ends, KeepDisk

LEMMA KillEffect ==
  ASSUME TypeOK, NEW p \in Runs, Kill(p)
  PROVE  /\ run[p].status = "working" /\ session' = session /\ disk' = disk
         /\ kills' \in 0 .. MaxKills
         /\ run'[p] \in RunState /\ Only(p)
         /\ Same(run[p], run'[p]) /\ run'[p].status = "killed" /\ run'[p].exit = run[p].exit
         /\ run'[p].at = run[p].at /\ run'[p].item = run[p].item /\ ~run'[p].open
<1>1. run[p] \in RunState
  BY DEF TypeOK
<1> DEFINE t == [run[p] EXCEPT !.status = "killed", !.open = FALSE]
<1>2. /\ t \in RunState /\ Same(run[p], t) /\ t.status = "killed" /\ t.exit = run[p].exit
      /\ t.at = run[p].at /\ t.item = run[p].item /\ ~t.open
  BY <1>1 DEF RunState, Same
<1>3. run'[p] = t /\ Only(p)
  BY BecomesFacts DEF Kill
<1> HIDE DEF t
<1> QED
  BY <1>2, <1>3, ToolsAssumption DEF Kill, TypeOK


-----------------------------------------------------------------------------
(* The shapes a step of run p has, whatever the action.                    *)
Begins(p) ==
  /\ run[p].status = "idle" /\ (Follows(p) => EndedWell(1)) /\ disk' = disk
  /\ \/ run'[p].status = "working" /\ run'[p].exit = run[p].exit
     \/ run'[p].status = "ended" /\ run'[p].exit = 1
  /\ run'[p].alone = (run[Other(p)].status \in {"ended", "killed"})
  /\ run'[p].at = run[p].at /\ run'[p].item = run[p].item /\ run'[p].open = run[p].open
  /\ run'[p].n = run[p].n /\ run'[p].told = run[p].told /\ run'[p].got = run[p].got
  /\ run'[p].noted = run[p].noted /\ run'[p].slips = run[p].slips /\ run'[p].missed = run[p].missed

Moves(p) ==
  /\ run[p].status = "working" /\ run[p].at <= Len(Steps(p)) /\ Passes(run[p], run'[p])
  /\ run'[p].n = run[p].n \/ Now(p).op = "list"
  /\ Now(p).op = "list" /\ Unconditional(Now(p)) =>
       /\ TakesFrames(p) => run'[p].n = Cardinality(Given(p))
       /\ run'[p].n = 0 => Now(p).fails # "stop"
  /\ \/ run'[p].told = run[p].told
     \/ Now(p).op = "tally" /\ run'[p].told = Cardinality(Made(p)) /\ disk' = disk
     \/ Now(p).op = "report" /\ run'[p].told = run[p].n + Strays(p)
     \/ Now(p).op = "count"
  /\ \/ run'[p].got = run[p].got
     \/ AtMake(p) /\ (~Now(p).each \/ Now(p).op = "until" \/ run[p].n > 0)
  /\ Now(p).op = "make" /\ Now(p).each /\ Unconditional(Now(p)) /\ Now(p).fails # "next"
       => run[p].item > Items(p)

Halts(p) ==
  /\ run[p].status = "working" /\ disk' = disk /\ Same(run[p], run'[p])
  /\ run'[p].at = run[p].at /\ run'[p].item = run[p].item /\ ~run'[p].open
  /\ \/ run'[p].status = "ended" /\ run'[p].exit = 1
     \/ run'[p].status = "killed" /\ run'[p].exit = run[p].exit

Opened(p) ==
  /\ AtMake(p) /\ ~run[p].open /\ run[p].item <= Items(p) /\ run'[p].open
  /\ Wrote(Target(p), "torn", p, Number(p))
  /\ Stays(run[p], run'[p]) /\ Same(run[p], run'[p]) /\ run'[p].item = run[p].item

Turns(p) ==
  /\ AtMake(p) /\ run[p].open /\ run[p].item <= Items(p) /\ ~run'[p].open
  /\ Stays(run[p], run'[p]) /\ run'[p].item \in {run[p].item, run[p].item + 1}
  /\ Now(p).each \/ Now(p).op = "until" \/ Now(p).fails = "note"

Finishes(p) ==
  /\ run[p].status = "working" /\ run[p].at = Len(Steps(p)) + 1 /\ disk' = disk
  /\ Same(run[p], run'[p]) /\ run'[p].status = "ended" /\ run'[p].exit \in {0, 1}
  /\ run'[p].at = run[p].at /\ run'[p].item = run[p].item /\ run'[p].open = run[p].open
  /\ run'[p].exit = 0 => Script(p).exit = "always" \/ Succeeds(p)

DiskStep(p) ==
  \/ disk' = disk
  \/ /\ AtMake(p) /\ run[p].item <= Items(p)
     /\ \E s \in {"torn", "spoiled", "whole"}, q \in Runs :
          run[q].status # "idle" /\ Wrote(Target(p), s, q, Number(p))
  \/ /\ run[p].status = "working" /\ run[p].at <= Len(Steps(p)) /\ Now(p).op = "remove"
     /\ DOMAIN disk' = DOMAIN disk \ {File(p, Now(p).file, 0)}
     /\ \A f \in DOMAIN disk' : disk'[f] = disk[f]

Shape(p) ==
  /\ session' = session /\ kills' \in 0 .. MaxKills
  /\ run'[p] \in RunState /\ Only(p)
  /\ DiskStep(p)
  /\ Begins(p) \/ Moves(p) \/ Halts(p) \/ Opened(p) \/ Turns(p) \/ Finishes(p)

(* Names of files.                                                         *)
LEMMA FileFacts ==
  ASSUME NEW p \in Runs, NEW x, NEW i
  PROVE  /\ File(p, x, i)[1] = (IF x \in Shared THEN "tmp" ELSE Out(p))
         /\ File(p, x, i)[2] = x /\ File(p, x, i)[3] = i
         /\ File(p, x, i)[1] \in {"tmp", "out1", "out2"}
         /\ \A q \in Runs : \A y, j : File(p, x, i) = File(q, y, j) => x = y /\ i = j
BY DEF File, Out

LEMMA KindFacts ==
  ASSUME NEW p \in Runs, NEW i
  PROVE  File(p, "frame", i)[1] = Out(p) /\ File(p, "frame", i)[5] = ImagesOf(Command(p))
BY DEF File, Shared

LEMMA OutFacts ==
  ASSUME TypeOK
  PROVE  /\ Out(1) = "out1"
         /\ session.how = "then" => Out(2) = "out2"
         /\ session.how = "beside" => Out(2) = "out1"
BY ScriptFacts, RunsFacts DEF Out

(* The names of items; those of frames are not the user's.                 *)
LEMMA NameFacts ==
  ASSUME TypeOK, NEW p \in Runs
  PROVE  /\ \A i \in Nat \ {0} : Name(p, i) \in Nat \ {0}
         /\ Command(p) \notin UserNamed => \A i : Name(p, i) = i
<1>1. session \in Session /\ Fitting(session)
  BY ToolsAssumption DEF TypeOK
<1>2. session.names[p] \in {<<>>} \cup [1 .. MaxItems -> 1 .. MaxItems]
  BY <1>1 DEF Session
<1>3. DOMAIN <<>> = {}
  OBVIOUS
<1>4. ASSUME NEW i \in Nat \ {0}
      PROVE  Name(p, i) \in Nat \ {0}
  <2>1. CASE i \in DOMAIN session.names[p]
    <3>1. session.names[p] \in [1 .. MaxItems -> 1 .. MaxItems]
      BY <1>2, <1>3, <2>1
    <3>2. session.names[p][i] \in 1 .. MaxItems
      BY <2>1, <3>1
    <3> QED
      BY <2>1, <3>2, ToolsAssumption DEF Name
  <2>2. CASE i \notin DOMAIN session.names[p]
    BY <2>2 DEF Name
  <2> QED
    BY <2>1, <2>2
<1>5. ASSUME Command(p) \notin UserNamed
      PROVE  \A i : Name(p, i) = i
  <2>1. session.names[p] = <<>>
    BY <1>1, <1>5 DEF Fitting, Command, Runs
  <2> QED
    BY <1>3, <2>1 DEF Name
<1> QED
  BY <1>4, <1>5

(* The frames in a directory are among the first n of a run.               *)
LEMMA FrameFacts ==
  ASSUME ToolsInv, NEW f \in DOMAIN disk, f[2] = "frame"
  PROVE  \E q \in Runs :
           /\ f[1] = Out(q) /\ f[5] = ImagesOf(Command(q))
           /\ \E i \in 1 .. run[q].n : f = File(q, "frame", i)
<1>1. PICK q \in Runs : MadeBy(f, q)
  BY DEF ToolsInv, DiskInv
<1>2. PICK k \in DOMAIN Steps(q) :
        /\ Steps(q)[k].op \in Making
        /\ \/ ~Steps(q)[k].each /\ f = File(q, Steps(q)[k].file, 0)
           \/ Steps(q)[k].each /\ \E i \in 1 .. run[q].n : f = File(q, Steps(q)[k].file, Name(q, i))
  BY <1>1 DEF MadeBy
<1>3. Steps(q)[k].file = "frame"
  BY <1>2, FileFacts
<1>4. Steps(q)[k].each
  BY <1>2, <1>3, StepFacts DEF ToolsInv
<1>5. Command(q) \notin UserNamed
  <2>1. Fits(Command(q), Script(q))
    BY ScriptFacts DEF ToolsInv
  <2> QED
    BY <1>2, <1>3, <2>1 DEF Fits, NoFrames, Steps
<1>6. PICK i \in 1 .. run[q].n : f = File(q, "frame", i)
  BY <1>2, <1>3, <1>4, <1>5, NameFacts DEF ToolsInv
<1>7. f[1] = Out(q) /\ f[5] = ImagesOf(Command(q))
  BY <1>6, KindFacts
<1> QED
  BY <1>6, <1>7

LEMMA FramesUpTo ==
  ASSUME NEW p \in Runs, NEW n \in Nat, NEW F, \A f \in F : \E i \in 1 .. n : f = File(p, "frame", i)
  PROVE  IsFiniteSet(F) /\ Cardinality(F) \in 0 .. n
<1>1. F \in SUBSET {File(p, "frame", i) : i \in 1 .. n}
  OBVIOUS
<1> DEFINE g == [i \in 1 .. n |-> File(p, "frame", i)]
           G == {g[i] : i \in 1 .. n}
<1>2. IsFiniteSet(1 .. n) /\ Cardinality(1 .. n) = n
  BY FS_Interval
<1>3. G = {File(p, "frame", i) : i \in 1 .. n}
  OBVIOUS
<1>4. g \in Surjection(1 .. n, G)
  BY DEF Surjection
<1>5. IsFiniteSet(G) /\ Cardinality(G) <= n /\ Cardinality(G) \in Nat
  BY <1>2, <1>4, FS_Surjection, FS_CardinalityType
<1>6. IsFiniteSet(F) /\ Cardinality(F) <= Cardinality(G) /\ Cardinality(F) \in Nat
  BY <1>1, <1>3, <1>5, FS_Subset, FS_CardinalityType
<1> QED
  BY <1>5, <1>6

(* What the second run of a chain reads.                                   *)
LEMMA ReadsFacts ==
  ASSUME ToolsInv, NEW p \in Runs, TakesFrames(p)
  PROVE  /\ \A f \in Reads(p) : f[5] = ImagesOf(Command(1)) /\ \E i \in 1 .. run[1].n : f = File(1, "frame", i)
         /\ Cardinality(Given(p)) \in 0 .. run[1].n /\ run[1].n \in 0 .. MaxItems
         /\ Cardinality(Given(p)) \in 0 .. MaxItems
<1>1. session.how = "then" /\ TypeOK /\ session.via = "frame"
  BY DEF TakesFrames, Chained, Follows, ToolsInv
<1>2. run[1].n \in 0 .. MaxItems
  BY <1>1, RunsFacts DEF TypeOK, RunState
<1>3. ASSUME NEW f \in Reads(p)
      PROVE  f[5] = ImagesOf(Command(1)) /\ \E i \in 1 .. run[1].n : f = File(1, "frame", i)
  <2>1. f \in DOMAIN disk /\ f[1] = "out1" /\ f[2] = "frame"
    BY <1>1 DEF Reads
  <2>2. PICK q \in Runs :
          /\ f[1] = Out(q) /\ f[5] = ImagesOf(Command(q))
          /\ \E i \in 1 .. run[q].n : f = File(q, "frame", i)
    BY <2>1, FrameFacts
  <2>3. q = 1
    BY <1>1, <2>1, <2>2, OutFacts DEF Runs
  <2> QED
    BY <2>2, <2>3
<1>4. Cardinality(Given(p)) \in 0 .. run[1].n
  <2>1. run[1].n \in Nat /\ \A f \in Given(p) : \E i \in 1 .. run[1].n : f = File(1, "frame", i)
    BY <1>2, <1>3, ToolsAssumption DEF Given
  <2> QED
    BY <2>1, FramesUpTo, RunsFacts
<1> QED
  BY <1>2, <1>3, <1>4, ToolsAssumption

(* Every step of a run has one of these shapes.                            *)
LEMMA StepShape ==
  ASSUME ToolsInv, NEW p \in Runs, Parse(p) \/ Work(p) \/ Kill(p)
  PROVE  Shape(p)
<1>1. /\ TypeOK /\ ControlInv /\ IsFiniteSet(DOMAIN disk) /\ kills \in 0 .. MaxKills
      /\ run[p] \in RunState
  BY DEF ToolsInv, DiskInv, TypeOK
<1>2. /\ run[p].at \in 1 .. Len(Steps(p)) + 1 /\ Len(Steps(p)) \in Nat
      /\ run[p].at \in Nat \ {0}
      /\ run[p].open => run[p].item <= Items(p) /\ run[p].at \in 1 .. Len(Steps(p))
  <2>1. Len(Steps(p)) \in Nat
    BY <1>1, StepFacts
  <2> QED
    BY <1>1, <2>1 DEF ControlInv
<1>3. CASE Parse(p)
  BY <1>1, <1>3, ParseEffect DEF Shape, Begins, DiskStep
<1>4. CASE Kill(p)
  BY <1>1, <1>4, KillEffect DEF Shape, Halts, DiskStep
<1>5. CASE Skip(p)
  <2>1. Unconditional(Now(p)) => Due(p) /\ Now(p).when # "maybe"
    BY DEF Unconditional, Due
  <2> QED
    BY <1>1, <1>5, <2>1, SkipEffect DEF Shape, Moves, DiskStep, Same
<1>6. CASE Looks(p) \/ Needs(p)
  BY <1>1, <1>6, LooksEffect DEF Shape, Moves, Halts, DiskStep, Quietly, Same, Stops
<1>7. CASE Aborts(p)
  BY <1>1, <1>7, AbortsEffect DEF Shape, Halts, DiskStep, Quietly, Stops
<1>8. CASE Lists(p)
  BY <1>1, <1>8, ListsEffect, ReadsFacts DEF Shape, Moves, Halts, DiskStep, Quietly, Stops
<1>9. CASE Counts(p)
  BY <1>1, <1>9, CountsEffect DEF Shape, Moves, DiskStep, Quietly
<1>10. CASE Removes(p)
  BY <1>1, <1>10, RemovesEffect DEF Shape, Moves, DiskStep, Same
<1>11. CASE Opens(p)
  <2>1. run[p].status # "idle"
    BY <1>1, <1>11, OpensEffect DEF AtMake
  <2> QED
    BY <1>1, <1>11, <2>1, OpensEffect DEF Shape, Opened, DiskStep
<1>12. CASE Exhausted(p)
  BY <1>1, <1>12, ExhaustedEffect DEF Shape, Moves, Halts, DiskStep, Quietly, Stops, AtMake, Remembers, Making
<1>13. CASE Closes(p)
  <2>1. Maker(p) \in Runs /\ run[p].open /\ run[Maker(p)].status # "idle"
    <3>1. run[p].status # "idle" /\ run[p].open /\ Maker(p) # 0
      BY <1>13, MakesFacts DEF Closes, AtMake
    <3> QED
      BY <1>1, <3>1 DEF Maker, ToolsInv, DiskInv, TypeOK, DiskState
  <2>2. run[p].item <= Items(p) /\ run[p].at \in Nat \ {0}
    BY <1>2, <2>1
  <2> QED
    BY <1>1, <1>2, <1>13, <2>1, <2>2, ClosesEffect DEF Shape, Moves, Turns, DiskStep, AtMake, Remembers, Making
<1>14. CASE Slips(p)
  <2>1. /\ AtMake(p) /\ run[p].open /\ Quietly(p) /\ run[p].status = "working"
        /\ run'[p].n = run[p].n /\ run'[p].told = run[p].told
        /\ \/ Passes(run[p], run'[p]) /\ (~Now(p).each \/ Now(p).op = "until")
           \/ /\ Stays(run[p], run'[p]) /\ ~run'[p].open /\ Now(p).each
              /\ run'[p].item = IF Now(p).again THEN run[p].item ELSE run[p].item + 1
    <3>1. run[p].open /\ run[p].item <= Items(p) /\ run[p].at \in Nat \ {0}
      BY <1>2, <1>14 DEF Slips
    <3> QED
      BY <1>1, <1>14, <3>1, SlipsEffect DEF AtMake, Remembers
  <2>2. Now(p).op \in {"make", "until"} /\ run[p].at <= Len(Steps(p))
    BY <2>1 DEF AtMake, Making
  <2>3. Moves(p) \/ Turns(p)
    BY <1>2, <2>1, <2>2 DEF Moves, Turns
  <2> QED
    BY <1>1, <2>1, <2>3 DEF Shape, DiskStep, Quietly
<1>15. CASE Fails(p)
  <2>0. run[p].open /\ run[p].item <= Items(p) /\ run[p].at \in 1 .. Len(Steps(p))
    BY <1>2, <1>15 DEF Fails
  <2>1. /\ AtMake(p) /\ run[p].open /\ Quietly(p) /\ run[p].status = "working"
        /\ run[p].at <= Len(Steps(p)) /\ Now(p).op \in {"make", "until"}
        /\ session' = session /\ disk' = disk /\ kills' = kills
        /\ run'[p] \in RunState /\ Only(p)
    BY <1>1, <1>15, <2>0, FailsEffect DEF AtMake, Quietly, Making
  <2>2. \/ Stops(run[p], run'[p])
        \/ /\ Passes(run[p], run'[p]) /\ Same(run[p], run'[p])
           /\ Now(p).fails = "next"
        \/ /\ Passes(run[p], run'[p]) /\ ~Now(p).each
           /\ run'[p].n = run[p].n /\ run'[p].told = run[p].told /\ run'[p].got = run[p].got
        \/ /\ Stays(run[p], run'[p]) /\ ~run'[p].open
           /\ run'[p].item \in {run[p].item, run[p].item + 1}
           /\ Now(p).each \/ Now(p).op = "until" \/ Now(p).fails = "note"
    BY <1>1, <1>15, <2>0, FailsEffect
  <2>3. CASE Stops(run[p], run'[p])
    <3>1. Halts(p)
      BY <2>1, <2>3 DEF Halts, Stops
    <3> QED
      BY <1>1, <2>1, <3>1 DEF Shape, DiskStep
  <2>4. CASE /\ Passes(run[p], run'[p]) /\ Same(run[p], run'[p])
             /\ Now(p).fails = "next"
    <3>1. Moves(p)
      BY <2>1, <2>4 DEF Moves, Same
    <3> QED
      BY <1>1, <2>1, <3>1 DEF Shape, DiskStep
  <2>6. CASE /\ Passes(run[p], run'[p]) /\ ~Now(p).each
             /\ run'[p].n = run[p].n /\ run'[p].told = run[p].told /\ run'[p].got = run[p].got
    <3>1. Moves(p)
      BY <2>1, <2>6 DEF Moves
    <3> QED
      BY <1>1, <2>1, <3>1 DEF Shape, DiskStep
  <2>5. CASE /\ Stays(run[p], run'[p]) /\ ~run'[p].open
             /\ run'[p].item \in {run[p].item, run[p].item + 1}
             /\ Now(p).each \/ Now(p).op = "until" \/ Now(p).fails = "note"
    <3>1. Turns(p)
      BY <1>2, <2>1, <2>5 DEF Turns
    <3> QED
      BY <1>1, <2>1, <3>1 DEF Shape, DiskStep
  <2> QED
    BY <2>2, <2>3, <2>4, <2>5, <2>6
<1>16. CASE Ends(p)
  BY <1>1, <1>16, EndsEffect DEF Shape, Finishes, DiskStep
<1> QED
  BY <1>3, <1>4, <1>5, <1>6, <1>7, <1>8, <1>9, <1>10, <1>11, <1>12, <1>13, <1>14, <1>15, <1>16 DEF Work

-----------------------------------------------------------------------------
(* Every step preserves the invariant, part by part.                       *)
LEMMA SessionKept ==
  ASSUME session' = session
  PROVE  \A p : /\ Command(p)' = Command(p) /\ Script(p)' = Script(p) /\ Steps(p)' = Steps(p)
                /\ Out(p)' = Out(p) /\ Follows(p)' = Follows(p) /\ Chained(p)' = Chained(p)
                /\ TakesFrames(p)' = TakesFrames(p) /\ Strays(p)' = Strays(p)
                /\ \A i : Name(p, i)' = Name(p, i)
                /\ \A x, i : File(p, x, i)' = File(p, x, i)
<1>1. \A p : /\ Command(p)' = Command(p) /\ Script(p)' = Script(p) /\ Steps(p)' = Steps(p)
             /\ Out(p)' = Out(p) /\ Follows(p)' = Follows(p) /\ Chained(p)' = Chained(p)
  BY DEF Command, Script, Steps, Out, Follows, Chained
<1>2. \A p : /\ TakesFrames(p)' = TakesFrames(p)
             /\ \A i : Name(p, i)' = Name(p, i)
             /\ \A x, i : File(p, x, i)' = File(p, x, i)
  BY <1>1 DEF TakesFrames, Name, File
<1>3. \A p : Strays(p)' = Strays(p)
  BY <1>1, <1>2 DEF Strays
<1> QED
  BY <1>1, <1>2, <1>3

(* The type invariant.                                                     *)
LEMMA TypeStep ==
  ASSUME ToolsInv, NEW p \in Runs, Shape(p)
  PROVE  TypeOK'
<1>1. TypeOK /\ session' = session /\ run'[p] \in RunState /\ Only(p)
  BY DEF ToolsInv, Shape
<1>2. session' \in Sessions /\ kills' \in 0 .. MaxKills
  BY <1>1 DEF TypeOK, Shape
<1>3. run' \in [Runs -> RunState]
  BY <1>1 DEF TypeOK, Only
<1>4. Len(Steps(p)) \in Nat /\ run[p].at \in 1 .. Len(Steps(p)) + 1
  BY <1>1, StepFacts DEF ToolsInv, ControlInv
<1>5. ASSUME NEW q \in Runs, run'[q].status = "working"
      PROVE  run'[q].at \in 1 .. Len(Steps(q)) + 1
  <2>1. CASE q # p
    BY <1>1, <1>5, <2>1 DEF Only, TypeOK
  <2>2. CASE q = p
    BY <1>4, <1>5, <2>2 DEF Shape, Begins, Moves, Halts, Opened, Turns, Finishes, Passes, Stays
  <2> QED
    BY <2>1, <2>2
<1>6. ASSUME NEW f \in DOMAIN disk'
      PROVE  disk'[f] \in DiskState
  <2>1. \A g \in DOMAIN disk : disk[g] \in DiskState
    BY <1>1 DEF TypeOK
  <2>2. CASE disk' = disk
    BY <1>6, <2>1, <2>2
  <2>3. ASSUME NEW s \in {"torn", "spoiled", "whole"}, NEW q \in Runs, Wrote(Target(p), s, q, Number(p)),
               run[p].item <= Items(p)
        PROVE  disk'[f] \in DiskState
    <3>1. Number(p) \in 0 .. MaxItems
      <4>1. run[p].item \in Nat /\ run[p].n \in 0 .. MaxItems
        BY <1>1, ToolsAssumption DEF TypeOK, RunState
      <4> QED
        BY <2>3, <4>1, ToolsAssumption DEF Number, Items
    <3>2. [state |-> s, of |-> q, item |-> Number(p)] \in DiskState
      BY <3>1 DEF DiskState
    <3> QED
      BY <1>6, <2>1, <2>3, <3>2 DEF Wrote
  <2>4. CASE /\ DOMAIN disk' = DOMAIN disk \ {File(p, Now(p).file, 0)}
             /\ \A g \in DOMAIN disk' : disk'[g] = disk[g]
    BY <1>6, <2>1, <2>4
  <2> QED
    BY <2>2, <2>3, <2>4 DEF Shape, DiskStep
<1> QED
  BY <1>1, <1>2, <1>3, <1>5, <1>6, SessionKept DEF TypeOK

(* The control of one run, with its script s and the state r after a step. *)
Control(p, s, r) ==
  /\ r.at \in 1 .. Len(s) + 1
  /\ r.status \in {"idle", "working"} => r.exit = 2
  /\ r.status = "killed" => r.exit = 2
  /\ r.exit = 0 =>
       /\ r.at = Len(s) + 1
       /\ Script(p).exit = "always" \/ (~r.noted /\ (Script(p).some => r.got > 0))
  /\ r.status = "idle" => r.at = 1 /\ r.item = 1 /\ r.n = 0 /\ ~r.alone
  /\ r.open => /\ r.status = "working" /\ r.at <= Len(s)
               /\ s[r.at].op \in Making /\ r.item <= (IF s[r.at].each THEN r.n ELSE 1)
  /\ r.at <= Len(s) /\ ~s[r.at].each /\ s[r.at].op # "until" /\ s[r.at].fails # "note"
       => r.item = 1
  /\ r.at > Len(s) => r.item = 1
  /\ AllEach(s) /\ r.n = 0 => r.got = 0

Pairing(p) ==
  /\ run[p].alone => run[Other(p)].status \in {"ended", "killed"}
  /\ Follows(p) /\ run[p].status # "idle" => EndedWell(1)

(* ControlInv is Control of either run and Pairing.                        *)
LEMMA ControlParts ==
  ControlInv <=> \A p \in Runs : Control(p, Steps(p), run[p]) /\ Pairing(p)
BY DEF ControlInv, Control, Pairing, EndedWell, Succeeds, Now, Items

LEMMA ControlOfStep ==
  ASSUME ToolsInv, NEW p \in Runs, Shape(p)
  PROVE  Control(p, Steps(p), run'[p])
<1> DEFINE s == Steps(p)
           r == run[p]
           t == run'[p]
<1>1. Control(p, s, r) /\ r \in RunState /\ t \in RunState
  BY ControlParts DEF ToolsInv, TypeOK, Shape
<1>2. Len(s) \in Nat /\ r.at \in 1 .. Len(s) + 1
  BY <1>1, StepFacts DEF ToolsInv, Control
<1>3. CASE Begins(p)
  BY <1>1, <1>3 DEF Begins, Control
<1>4. CASE Moves(p)
  <2>1. AllEach(s) /\ t.n = 0 => t.got = 0
    <3> SUFFICES ASSUME AllEach(s), t.n = 0 PROVE t.got = 0
      OBVIOUS
    <3>1. r.n = 0
      <4>1. Now(p).op = "list" => r.n = 0
        BY <1>2, <1>4, StepFacts DEF Moves, ToolsInv, ListInv, Now
      <4> QED
        BY <1>4, <4>1 DEF Moves
    <3>2. r.got = 0
      BY <1>1, <3>1 DEF Control
    <3>3. AtMake(p) => Now(p).each /\ Now(p).op = "make"
      BY <1>2, StepFacts DEF AtMake, AllEach, Now, ToolsInv
    <3> QED
      BY <1>4, <3>1, <3>2, <3>3 DEF Moves
  <2>2. t.status = "working" /\ t.exit = 2 /\ t.at \in 1 .. Len(s) + 1 /\ t.item = 1 /\ ~t.open
    BY <1>1, <1>2, <1>4 DEF Moves, Passes, Control
  <2> QED
    BY <2>1, <2>2 DEF Control
<1>5. CASE Halts(p)
  BY <1>1, <1>5 DEF Halts, Same, Control
<1>6. CASE Opened(p)
  <2>1. /\ s[r.at].op \in Making /\ t.at = r.at /\ t.n = r.n /\ t.item = r.item
        /\ r.item <= (IF s[r.at].each THEN r.n ELSE 1) /\ t.at <= Len(s) /\ t.status = "working"
        /\ r.status = "working" /\ t.got = r.got /\ t.noted = r.noted /\ t.exit = r.exit
    BY <1>6 DEF Opened, AtMake, Stays, Same, Items, Now
  <2>2. /\ t.exit = 2 /\ t.at \in 1 .. Len(s) + 1 /\ (AllEach(s) /\ t.n = 0 => t.got = 0)
        /\ ~s[r.at].each /\ s[r.at].op # "until" /\ s[r.at].fails # "note" => r.item = 1
        /\ ~(t.at > Len(s))
    BY <1>1, <1>2, <2>1 DEF Control
  <2> QED
    BY <2>1, <2>2 DEF Control
<1>7. CASE Turns(p)
  <2>1. /\ t.at = r.at /\ r.at <= Len(s) /\ ~t.open /\ t.status = "working" /\ t.exit = r.exit
        /\ s[r.at].each \/ s[r.at].op = "until" \/ s[r.at].fails = "note"
        /\ r.status = "working"
    BY <1>7 DEF Turns, AtMake, Stays, Now
  <2>2. ~(AllEach(s) /\ t.n = 0)
    <3> SUFFICES ASSUME AllEach(s), t.n = 0 PROVE FALSE
      OBVIOUS
    <3>1. Now(p).each
      BY <1>2, <1>7, <2>1, StepFacts DEF Turns, AtMake, AllEach, Now, ToolsInv
    <3>2. r.item <= 0
      BY <1>7, <3>1 DEF Turns, Stays, Items
    <3>3. r.item \in Nat \ {0}
      BY <1>1, ToolsAssumption DEF RunState
    <3> QED
      BY <3>2, <3>3
  <2>3. t.exit = 2 /\ t.at \in 1 .. Len(s) + 1 /\ ~(t.at > Len(s))
    BY <1>1, <1>2, <2>1 DEF Control
  <2> QED
    BY <2>1, <2>2, <2>3 DEF Control
<1>8. CASE Finishes(p)
  BY <1>1, <1>8 DEF Finishes, Same, Control, Succeeds
<1> QED
  BY <1>3, <1>4, <1>5, <1>6, <1>7, <1>8 DEF Shape

(* A run does not become idle again, and one that is over stays as it is.  *)
LEMMA StatusStep ==
  ASSUME ToolsInv, NEW p \in Runs, Shape(p)
  PROVE  /\ run'[p].status # "idle" /\ run[p].status \in {"idle", "working"}
         /\ run[p].status = "working" => run'[p].alone = run[p].alone
         /\ run[p].status = "working" /\ run'[p].status = "working" => run'[p].exit = run[p].exit
         /\ run[p].status = "idle" => run'[p].alone = (run[Other(p)].status \in {"ended", "killed"})
         /\ run[Other(p)].alone = FALSE
         /\ run'[Other(p)] = run[Other(p)]
<1>1. /\ run[p].status \in {"idle", "working"} /\ run'[p].status # "idle"
      /\ run[p].status = "working" => run'[p].alone = run[p].alone
      /\ run[p].status = "working" /\ run'[p].status = "working" => run'[p].exit = run[p].exit
      /\ run[p].status = "idle" => run'[p].alone = (run[Other(p)].status \in {"ended", "killed"})
  BY DEF Shape, Begins, Moves, Halts, Opened, Turns, Finishes, Passes, Stays, Same, AtMake
<1>2. run[Other(p)].alone = FALSE
  <2>1. run[Other(p)].alone \in BOOLEAN /\ (run[Other(p)].alone => run[p].status \in {"ended", "killed"})
    BY RunsFacts DEF ToolsInv, TypeOK, RunState, ControlInv
  <2> QED
    BY <1>1, <2>1
<1>3. run'[Other(p)] = run[Other(p)]
  BY RunsFacts DEF Shape, Only
<1> QED
  BY <1>1, <1>2, <1>3

LEMMA ControlStep ==
  ASSUME ToolsInv, NEW p \in Runs, Shape(p)
  PROVE  ControlInv'
<1>1. session' = session /\ Only(p)
  BY DEF Shape
<1>2. ASSUME NEW q \in Runs
      PROVE  Control(q, Steps(q), run'[q])
  <2>1. CASE q = p
    BY <2>1, ControlOfStep
  <2>2. CASE q # p
    BY <1>1, <2>2, ControlParts DEF Only, ToolsInv
  <2> QED
    BY <2>1, <2>2
<1>3. ASSUME NEW q \in Runs
      PROVE  /\ run'[q].alone => run'[Other(q)].status \in {"ended", "killed"}
             /\ Follows(q) /\ run'[q].status # "idle" => run'[1].exit = 0
  <2>1. /\ run[q].alone => run[Other(q)].status \in {"ended", "killed"}
        /\ Follows(q) /\ run[q].status # "idle" => run[1].exit = 0
    BY ControlParts DEF ToolsInv, Pairing, EndedWell
  <2>2. run[1].exit = 0 => run[1].status = "ended"
    <3>1. run[1] \in RunState /\ Control(1, Steps(1), run[1])
      BY ControlParts, RunsFacts DEF ToolsInv, TypeOK
    <3> QED
      BY <3>1 DEF Control, RunState
  <2>3. CASE q = p
    <3>1. Follows(q) => q = 2 /\ run'[1] = run[1]
      BY <1>1, <2>3, RunsFacts DEF Follows, Only
    <3>2. run[p].status = "idle" => (Follows(p) => run[1].exit = 0)
      BY DEF Shape, Begins, Moves, Halts, Opened, Turns, Finishes, AtMake, EndedWell
    <3> QED
      BY <2>1, <2>3, <3>1, <3>2, StatusStep
  <2>4. CASE q # p
    <3>1. q = Other(p) /\ Other(q) = p
      BY <2>4, RunsFacts
    <3>2. run'[q] = run[q] /\ run[q].alone = FALSE /\ run[p].status \in {"idle", "working"}
      BY <3>1, StatusStep
    <3>3. Follows(q) /\ run[q].status # "idle" => run'[1].exit = 0
      <4>1. Follows(q) /\ run[q].status # "idle" => p = 1 /\ run[1].exit = 0
        BY <2>1, <2>4, RunsFacts DEF Runs, Follows
      <4> QED
        BY <2>2, <3>2, <4>1
    <3> QED
      BY <2>1, <3>2, <3>3
  <2> QED
    BY <2>3, <2>4
<1>4. \A q \in Runs : Control(q, Steps(q), run'[q]) /\ Script(q)' = Script(q) /\ Steps(q)' = Steps(q)
                      /\ Follows(q)' = Follows(q)
  BY <1>1, <1>2, SessionKept
<1>5. \A q \in Runs : Items(q)' = (IF Steps(q)[run'[q].at].each THEN run'[q].n ELSE 1)
  BY <1>4 DEF Items, Now
<1> QED
  BY <1>3, <1>4, <1>5 DEF ControlInv, Control, EndedWell, Succeeds, Now

(* Nothing is listed before the step that lists.                           *)
LEMMA ListStep ==
  ASSUME ToolsInv, NEW p \in Runs, Shape(p)
  PROVE  ListInv'
<1>1. session' = session /\ Only(p)
  BY DEF Shape
<1>2. ASSUME NEW q \in Runs, NEW l \in DOMAIN Steps(q), Steps(q)[l].op = "list", run'[q].at <= l
      PROVE  run'[q].n = 0
  <2>1. run[q].at <= l => run[q].n = 0
    BY <1>2 DEF ToolsInv, ListInv
  <2>2. CASE q # p
    BY <1>1, <1>2, <2>1, <2>2 DEF Only
  <2>3. CASE q = p
    <3>1. run'[q].at = run[q].at => run'[q].n = run[q].n
      BY <2>3 DEF Shape, Begins, Moves, Halts, Opened, Turns, Finishes, Passes, Stays, Same, ToolsInv, TypeOK, RunState
    <3>2. CASE run'[q].at = run[q].at
      BY <1>2, <2>1, <3>1, <3>2
    <3>3. CASE run'[q].at # run[q].at
      <4>1. Moves(p) /\ run'[p].at = run[p].at + 1
        BY <2>3, <3>3 DEF Shape, Begins, Moves, Halts, Opened, Turns, Finishes, Passes, Stays, Same
      <4>2. run[p].at \in DOMAIN Steps(p) /\ run[p].at < l
        BY <1>2, <2>3, <4>1, StepFacts DEF ToolsInv, ControlInv, Moves
      <4>3. Now(p).op # "list"
        BY <1>2, <2>3, <4>2, StepFacts DEF Now, ToolsInv
      <4> QED
        BY <2>1, <2>3, <4>1, <4>2, <4>3 DEF Moves
    <3> QED
      BY <3>2, <3>3
  <2> QED
    BY <2>2, <2>3
<1> QED
  BY <1>1, <1>2, SessionKept DEF ListInv

(* The number of items a run works on never goes down.                     *)
LEMMA ItemsGrow ==
  ASSUME ToolsInv, NEW p \in Runs, Shape(p), NEW q \in Runs
  PROVE  run[q].n \in Nat /\ run'[q].n \in Nat /\ run[q].n <= run'[q].n
<1>1. run[q].n \in Nat /\ run'[q].n \in Nat
  <2>1. run[q] \in RunState /\ run'[q] \in RunState
    BY DEF ToolsInv, TypeOK, Shape, Only
  <2> QED
    BY <2>1, ToolsAssumption DEF RunState
<1>2. CASE q # p
  BY <1>1, <1>2 DEF Shape, Only
<1>3. CASE q = p
  <2>1. CASE run'[p].n = run[p].n
    BY <1>1, <1>3, <2>1
  <2>2. CASE run'[p].n # run[p].n
    <3>1. run[p].status = "working" /\ run[p].at <= Len(Steps(p)) /\ Now(p).op = "list"
      BY <2>2 DEF Shape, Begins, Moves, Halts, Opened, Turns, Finishes, Stays, Same
    <3>2. run[p].at \in DOMAIN Steps(p)
      BY <3>1, StepFacts DEF ToolsInv, ControlInv
    <3>3. run[p].n = 0
      BY <3>1, <3>2 DEF ToolsInv, ListInv, Now
    <3> QED
      BY <1>1, <1>3, <3>3
  <2> QED
    BY <2>1, <2>2
<1> QED
  BY <1>2, <1>3

(* Every file is one that a step of some run's script makes.               *)
LEMMA DiskStepKeeps ==
  ASSUME ToolsInv, NEW p \in Runs, Shape(p)
  PROVE  DiskInv'
<1>1. session' = session /\ Only(p) /\ IsFiniteSet(DOMAIN disk)
  BY DEF Shape, ToolsInv, DiskInv
<1> DEFINE Made2(f, q) ==
             \E k \in DOMAIN Steps(q) :
               /\ Steps(q)[k].op \in Making
               /\ \/ ~Steps(q)[k].each /\ f = File(q, Steps(q)[k].file, 0)
                  \/ /\ Steps(q)[k].each
                     /\ \E i \in 1 .. run'[q].n : f = File(q, Steps(q)[k].file, Name(q, i))
<1>2. ASSUME NEW f \in DOMAIN disk
      PROVE  \E q \in Runs : Made2(f, q)
  <2>1. PICK q \in Runs : MadeBy(f, q)
    BY DEF ToolsInv, DiskInv
  <2>2. 1 .. run[q].n \subseteq 1 .. run'[q].n
    BY ItemsGrow
  <2> QED
    BY <2>1, <2>2 DEF MadeBy
<1>3. ASSUME AtMake(p), run[p].item <= Items(p)
      PROVE  Made2(Target(p), p)
  <2>1. run[p].at \in DOMAIN Steps(p) /\ Steps(p)[run[p].at].op \in Making
    BY <1>3, StepFacts DEF AtMake, Now, ToolsInv, ControlInv
  <2>2. run[p].item \in Nat \ {0}
    BY ToolsAssumption DEF ToolsInv, TypeOK, RunState
  <2>3. CASE Now(p).each
    <3>1. run[p].item \in 1 .. run'[p].n
      BY <1>3, <2>2, <2>3, ItemsGrow DEF Items
    <3> QED
      BY <2>1, <2>3, <3>1 DEF Target, Now
  <2>4. CASE ~Now(p).each
    BY <2>1, <2>4 DEF Target, Now
  <2> QED
    BY <2>3, <2>4
<1> HIDE DEF Made2
<1>4. IsFiniteSet(DOMAIN disk') /\ \A f \in DOMAIN disk' : \E q \in Runs : Made2(f, q)
  <2>1. CASE disk' = disk
    BY <1>1, <1>2, <2>1
  <2>2. CASE /\ AtMake(p) /\ run[p].item <= Items(p)
             /\ \E s \in {"torn", "spoiled", "whole"}, q \in Runs : Wrote(Target(p), s, q, Number(p))
    <3>1. DOMAIN disk' = DOMAIN disk \cup {Target(p)}
      BY <2>2 DEF Wrote
    <3>2. IsFiniteSet(DOMAIN disk')
      BY <1>1, <3>1, FS_AddElement
    <3> QED
      BY <1>2, <1>3, <2>2, <3>1, <3>2
  <2>3. CASE DOMAIN disk' = DOMAIN disk \ {File(p, Now(p).file, 0)}
    <3>1. IsFiniteSet(DOMAIN disk')
      BY <1>1, <2>3, FS_RemoveElement
    <3> QED
      BY <1>2, <2>3, <3>1
  <2> QED
    BY <2>1, <2>2, <2>3 DEF Shape, DiskStep
<1>5. \A f, q : MadeBy(f, q)' <=> Made2(f, q)
  <2>1. \A q : Steps(q)' = Steps(q) /\ \A x, i : File(q, x, i)' = File(q, x, i)
    BY <1>1, SessionKept
  <2>2. \A q, x, i : File(q, x, Name(q, i))' = File(q, x, Name(q, i))
    BY <1>1, SessionKept DEF File, Out, Command, Name
  <2> QED
    BY <2>1, <2>2 DEF MadeBy, Made2
<1>6. \A f \in DOMAIN disk' : run'[disk'[f].of].status # "idle"
  <2>1. \A q \in Runs : run[q].status # "idle" => run'[q].status # "idle"
    BY <1>1, StatusStep DEF Only
  <2>2. \A f \in DOMAIN disk : disk[f].of \in Runs /\ run[disk[f].of].status # "idle"
    BY DEF ToolsInv, DiskInv, TypeOK, DiskState
  <2>3. CASE \A f \in DOMAIN disk' : f \in DOMAIN disk /\ disk'[f] = disk[f]
    BY <2>1, <2>2, <2>3
  <2>4. CASE \E s \in {"torn", "spoiled", "whole"}, q \in Runs :
               run[q].status # "idle" /\ Wrote(Target(p), s, q, Number(p))
    <3>1. PICK s \in {"torn", "spoiled", "whole"}, q \in Runs :
            run[q].status # "idle" /\ Wrote(Target(p), s, q, Number(p))
      BY <2>4
    <3>2. ASSUME NEW f \in DOMAIN disk'
          PROVE  run'[disk'[f].of].status # "idle"
      <4>1. CASE f = Target(p)
        <5>1. disk'[f].of = q
          BY <3>1, <4>1 DEF Wrote
        <5> QED
          BY <2>1, <3>1, <5>1
      <4>2. CASE f # Target(p)
        BY <2>1, <2>2, <3>1, <4>2 DEF Wrote
      <4> QED
        BY <4>1, <4>2
    <3> QED
      BY <3>2
  <2> QED
    BY <2>3, <2>4 DEF Shape, DiskStep
<1> QED
  BY <1>4, <1>5, <1>6 DEF DiskInv

(* Files with a number stay.                                               *)
LEMMA NumberedStay ==
  ASSUME ToolsInv, NEW p \in Runs, Shape(p),
         NEW q \in Runs, NEW x, NEW i \in Nat \ {0}, File(q, x, i) \in DOMAIN disk
  PROVE  File(q, x, i) \in DOMAIN disk'
<1>1. File(q, x, i) # File(p, Now(p).file, 0)
  BY FileFacts
<1> QED
  BY <1>1 DEF Shape, DiskStep, Wrote

(* A step made for each item: how far it is before and after.              *)
LEMMA ReachedStep ==
  ASSUME ToolsInv, NEW p \in Runs, Shape(p), NEW q \in Runs,
         NEW j \in DOMAIN Steps(q), EachStep(Steps(q), j),
         NEW i \in 1 .. Reached(q, j)'
  PROVE  \/ i \in 1 .. Reached(q, j)
         \/ q = p /\ Turns(p) /\ run[p].at = j /\ i = run[p].item /\ run'[p].item = run[p].item + 1
<1> DEFINE s == Steps(q)
<1>1. session' = session /\ Only(p) /\ TypeOK
  BY DEF Shape, ToolsInv
<1>2. /\ run[q] \in RunState /\ run'[q] \in RunState /\ run[q].n \in Nat /\ run'[q].n \in Nat
      /\ run[q].item \in Nat \ {0} /\ run'[q].item \in Nat \ {0} /\ run[q].at \in Nat /\ run'[q].at \in Nat
  <2>1. run[q] \in RunState /\ run'[q] \in RunState
    BY <1>1 DEF TypeOK, Shape, Only
  <2> QED
    BY <2>1, ToolsAssumption DEF RunState
<1>3. i \in 1 .. (IF run'[q].at > j THEN run'[q].n ELSE IF run'[q].at = j THEN run'[q].item - 1 ELSE 0)
  BY DEF Reached
<1>4. CASE q # p
  BY <1>1, <1>3, <1>4 DEF Only, Reached
<1>5. CASE q = p
  <2>1. j \in Nat \ {0} /\ Len(s) \in Nat /\ DOMAIN s = 1 .. Len(s)
    BY <1>1, StepFacts
  <2>2. CASE run'[p].at = run[p].at
    <3>1. CASE Turns(p)
      <4>1. run'[p].n = run[p].n /\ run'[p].item \in {run[p].item, run[p].item + 1}
        BY <3>1 DEF Turns, Stays
      <4>2. CASE run[p].at > j
        BY <1>2, <1>3, <1>5, <2>1, <2>2, <4>1, <4>2 DEF Reached
      <4>3. CASE run[p].at = j
        <5>1. i \in 1 .. run'[p].item - 1 /\ Reached(q, j) = run[p].item - 1
          BY <1>2, <1>3, <1>5, <2>1, <2>2, <4>3 DEF Reached
        <5> QED
          BY <1>2, <1>5, <3>1, <4>1, <4>3, <5>1
      <4>4. CASE run[p].at < j
        BY <1>2, <1>3, <1>5, <2>1, <2>2, <4>4
      <4> QED
        BY <1>2, <1>5, <2>1, <4>2, <4>3, <4>4
    <3>2. CASE ~Turns(p)
      <4>1. run'[p].n = run[p].n /\ run'[p].item = run[p].item
        BY <1>2, <1>5, <2>2, <3>2 DEF Shape, Begins, Moves, Halts, Opened, Finishes, Passes, Stays, Same
      <4> QED
        BY <1>2, <1>3, <1>5, <2>1, <2>2, <4>1 DEF Reached
    <3> QED
      BY <3>1, <3>2
  <2>3. CASE run'[p].at # run[p].at
    <3>1. Moves(p)
      BY <1>5, <2>3 DEF Shape, Begins, Halts, Opened, Turns, Finishes, Stays
    <3>2. /\ run'[p].at = run[p].at + 1 /\ run'[p].item = 1
          /\ run[p].at \in 1 .. Len(s)
      <4>1. run[p].at \in Nat \ {0}
        BY <1>1, <1>5 DEF ToolsInv, ControlInv, TypeOK, RunState
      <4> QED
        BY <1>5, <2>1, <3>1, <4>1 DEF Moves, Passes
    <3>3. run'[p].at > j /\ run[p].at >= j
      BY <1>2, <1>3, <1>5, <2>1, <3>2
    <3>4. PICK l \in 1 .. j - 1 : s[l].op = "list"
      BY DEF EachStep, ListedBefore
    <3>5. Now(p).op # "list"
      <4>1. l \in 1 .. Len(s) /\ l # run[p].at
        BY <1>2, <1>5, <2>1, <3>2, <3>3, <3>4
      <4>2. s[run[p].at].op = "list" => l = run[p].at
        BY <1>1, <1>5, <3>2, <3>4, <4>1, StepFacts
      <4> QED
        BY <1>5, <4>1, <4>2 DEF Now
    <3>6. run'[p].n = run[p].n
      BY <3>1, <3>5 DEF Moves
    <3>7. CASE run[p].at > j
      BY <1>2, <1>3, <1>5, <2>1, <3>3, <3>6, <3>7 DEF Reached
    <3>8. CASE run[p].at = j
      <4>1. /\ Now(p).op = "make" /\ Now(p).each /\ Unconditional(Now(p)) /\ Now(p).fails # "next"
        BY <1>5, <3>8 DEF EachStep, Now
      <4>2. run[p].item > run[p].n
        BY <3>1, <4>1 DEF Moves, Items
      <4> QED
        BY <1>2, <1>3, <1>5, <2>1, <3>3, <3>6, <3>8, <4>2 DEF Reached
    <3>9. run[p].at > j \/ run[p].at = j
      BY <1>2, <1>5, <2>1, <3>3
    <3> QED
      BY <3>7, <3>8, <3>9
  <2> QED
    BY <2>2, <2>3
<1> QED
  BY <1>4, <1>5

LEMMA ReachedType ==
  ASSUME ToolsInv, NEW p \in Runs, Shape(p), NEW q \in Runs, NEW j, NEW i \in 1 .. Reached(q, j)'
  PROVE  i \in Nat \ {0}
<1>1. run'[q] \in RunState
  BY DEF Shape, Only, ToolsInv, TypeOK
<1>2. run'[q].n \in Nat /\ run'[q].item \in Nat \ {0}
  BY <1>1, ToolsAssumption DEF RunState
<1> QED
  BY <1>2 DEF Reached

(* The files of the items a step has been through are there.               *)
LEMMA ExistStep ==
  ASSUME ToolsInv, NEW p \in Runs, Shape(p)
  PROVE  ExistInv'
<1>1. session' = session /\ Only(p) /\ TypeOK
  BY DEF Shape, ToolsInv
<1>2. \A q \in Runs : run[q].item \in Nat \ {0}
  BY <1>1, ToolsAssumption DEF TypeOK, RunState
<1>3. ASSUME NEW q \in Runs, NEW j \in DOMAIN Steps(q), EachStep(Steps(q), j),
             NEW i \in 1 .. Reached(q, j)'
      PROVE  File(q, Steps(q)[j].file, Name(q, i)) \in DOMAIN disk'
  <2>0. i \in Nat \ {0} /\ Name(q, i) \in Nat \ {0}
    <3>1. i \in Nat \ {0}
      BY <1>1, <1>3, ReachedType
    <3> QED
      BY <1>1, <3>1, NameFacts
  <2>1. CASE i \in 1 .. Reached(q, j)
    <3>1. File(q, Steps(q)[j].file, Name(q, i)) \in DOMAIN disk
      BY <1>3, <2>1 DEF ToolsInv, ExistInv
    <3> QED
      BY <2>0, <3>1, NumberedStay
  <2>2. CASE q = p /\ Turns(p) /\ run[p].at = j /\ i = run[p].item
    <3>1. Now(p).each /\ File(q, Steps(q)[j].file, Name(q, i)) = Target(p)
      BY <1>3, <2>2 DEF EachStep, Target, Now
    <3>2. Target(p) \in DOMAIN disk
      BY <2>2, <3>1 DEF Turns, ToolsInv, ExistInv
    <3> QED
      BY <2>0, <2>2, <3>1, <3>2, NumberedStay
  <2> QED
    BY <1>3, <2>1, <2>2, ReachedStep
<1>4. ASSUME NEW q \in Runs, run'[q].open, Steps(q)[run'[q].at].each
      PROVE  File(q, Steps(q)[run'[q].at].file, Name(q, run'[q].item)) \in DOMAIN disk'
  <2>1. CASE run[q].open /\ run'[q] = run[q]
    <3>1. File(q, Steps(q)[run[q].at].file, Name(q, run[q].item)) \in DOMAIN disk
      BY <1>4, <2>1 DEF ToolsInv, ExistInv, Target, Now
    <3>2. Name(q, run[q].item) \in Nat \ {0}
      BY <1>1, <1>2, NameFacts
    <3> QED
      BY <2>1, <3>1, <3>2, NumberedStay
  <2>2. CASE q # p
    <3>1. run'[q] = run[q] /\ run[q].open
      BY <1>1, <1>4, <2>2 DEF Only
    <3> QED
      BY <2>1, <3>1
  <2>3. CASE q = p
    <3>1. run[p].open => run[p].status = "working" /\ run[p].at <= Len(Steps(p))
      BY DEF ToolsInv, ControlInv
    <3>2. Len(Steps(p)) \in Nat
      BY <1>1, StepFacts
    <3>3. Opened(p)
      BY <1>4, <2>3, <3>1, <3>2 DEF Shape, Begins, Moves, Halts, Turns, Finishes, Passes
    <3>4. Target(p) \in DOMAIN disk' /\ run'[p].at = run[p].at /\ run'[p].item = run[p].item
      BY <3>3 DEF Opened, Wrote, Stays
    <3> QED
      BY <1>4, <2>3, <3>4 DEF Target, Now
  <2> QED
    BY <2>2, <2>3
<1>5. ASSUME NEW q \in Runs
      PROVE  /\ Now(q)' = Steps(q)[run'[q].at]
             /\ Target(q)' = File(q, Steps(q)[run'[q].at].file,
                                  IF Steps(q)[run'[q].at].each THEN Name(q, run'[q].item) ELSE 0)
  BY <1>1 DEF Now, Target, Name, File, Out, Steps, Script, Command
<1>6. ASSUME NEW q \in Runs, run'[q].open, Now(q)'.each
      PROVE  Target(q)' \in DOMAIN disk'
  BY <1>4, <1>5, <1>6
<1>7. ASSUME NEW q \in Runs, NEW j \in DOMAIN Steps(q)', EachStep(Steps(q)', j),
             NEW i \in 1 .. Reached(q, j)'
      PROVE  File(q, Steps(q)[j].file, Name(q, i))' \in DOMAIN disk'
  <2>1. Steps(q)' = Steps(q)
        /\ File(q, Steps(q)[j].file, Name(q, i))' = File(q, Steps(q)[j].file, Name(q, i))
    BY <1>1, SessionKept DEF File, Name, Out, Steps, Script, Command
  <2> QED
    BY <1>3, <1>7, <2>1
<1> QED
  BY <1>6, <1>7 DEF ExistInv

(* A command that makes frames makes up their names.                       *)
LEMMA FramesUnnamed ==
  ASSUME TypeOK, NEW p \in Runs, NEW j \in DOMAIN Steps(p),
         Steps(p)[j].op \in Making, Steps(p)[j].file = "frame"
  PROVE  Command(p) \notin UserNamed
<1>1. Fits(Command(p), Script(p))
  BY ScriptFacts
<1> QED
  BY <1>1 DEF Fits, NoFrames, Steps

(* The frames a run made are all there; no more than some run listed are.  *)
LEMMA MadeFacts ==
  ASSUME ToolsInv, NEW p \in Runs, NEW j \in DOMAIN Steps(p), EachStep(Steps(p), j),
         Steps(p)[j].file = "frame", run[p].at > j
  PROVE  /\ Cardinality(Made(p)) \in Nat /\ Cardinality(Made(p)) >= run[p].n
         /\ Cardinality(Made(p)) > run[p].n
              => session.how = "beside" /\ Cardinality(Made(p)) <= run[Other(p)].n
<1> DEFINE n == run[p].n
           o == run[Other(p)].n
           F == Made(p)
<1>1. n \in Nat /\ o \in Nat /\ TypeOK
  <2>1. run[p] \in RunState /\ run[Other(p)] \in RunState /\ TypeOK
    BY RunsFacts DEF ToolsInv, TypeOK
  <2> QED
    BY <2>1, ToolsAssumption DEF RunState
<1>2. IsFiniteSet(F) /\ Cardinality(F) \in Nat
  <2>1. F \subseteq DOMAIN disk /\ IsFiniteSet(DOMAIN disk)
    BY DEF Made, ToolsInv, DiskInv
  <2> QED
    BY <2>1, FS_Subset, FS_CardinalityType
<1>3. \A i \in 1 .. n : File(p, "frame", i) \in F
  <2>1. ASSUME NEW i \in 1 .. n
        PROVE  File(p, "frame", i) \in F
    <3>1. Name(p, i) = i
      BY <1>1, FramesUnnamed, NameFacts DEF EachStep, Making
    <3>2. File(p, "frame", i) \in DOMAIN disk
      BY <3>1 DEF ToolsInv, ExistInv, Reached
    <3> QED
      BY <3>2, FileFacts, KindFacts DEF Made
  <2> QED
    BY <2>1
<1>4. n <= Cardinality(F)
  <2> DEFINE g == [i \in 1 .. n |-> File(p, "frame", i)]
  <2>1. g \in [1 .. n -> F]
    BY <1>3
  <2>2. \A a, b \in 1 .. n : g[a] = g[b] => a = b
    BY FileFacts
  <2>3. g \in Injection(1 .. n, F)
    BY <2>1, <2>2 DEF Injection, IsInjective
  <2>4. Cardinality(1 .. n) = n
    BY <1>1, FS_Interval
  <2> QED
    BY <1>2, <2>3, <2>4, FS_Injection
<1>5. ASSUME NEW f \in F
      PROVE  \E q \in Runs : /\ Out(q) = Out(p) /\ ImagesOf(Command(q)) = ImagesOf(Command(p))
                             /\ \E i \in 1 .. run[q].n : f = File(q, "frame", i)
  <2>1. f \in DOMAIN disk /\ f[2] = "frame" /\ f[1] = Out(p) /\ f[5] = ImagesOf(Command(p))
    BY DEF Made
  <2> QED
    BY <2>1, FrameFacts
<1>6. CASE session.how = "then"
  <2>1. \A q \in Runs : Out(q) = Out(p) => q = p
    BY <1>1, <1>6, OutFacts DEF Runs
  <2>2. \A f \in F : \E i \in 1 .. n : f = File(p, "frame", i)
    BY <1>5, <2>1
  <2> QED
    BY <1>1, <1>2, <1>4, <2>2, FramesUpTo
<1>7. CASE session.how = "beside"
  <2> DEFINE m == IF n >= o THEN n ELSE o
  <2>1. m \in Nat /\ 1 .. n \subseteq 1 .. m /\ 1 .. o \subseteq 1 .. m
    BY <1>1
  <2>2. ASSUME NEW f \in F
        PROVE  \E i \in 1 .. m : f = File(p, "frame", i)
    <3>1. PICK q \in Runs : /\ Out(q) = Out(p) /\ ImagesOf(Command(q)) = ImagesOf(Command(p))
                            /\ \E i \in 1 .. run[q].n : f = File(q, "frame", i)
      BY <1>5
    <3>2. \A i : File(q, "frame", i) = File(p, "frame", i)
      BY <3>1 DEF File, Fresh, Shared
    <3>3. run[q].n \in {n, o}
      BY RunsFacts
    <3> QED
      BY <2>1, <3>1, <3>2, <3>3
  <2>3. Cardinality(F) \in 0 .. m
    BY <2>1, <2>2, FramesUpTo
  <2> QED
    BY <1>1, <1>2, <1>4, <1>7, <2>3
<1> QED
  BY <1>1, <1>6, <1>7, ScriptFacts

(* What is reported is what was listed, or what the other run left.        *)
LEMMA TallyStep ==
  ASSUME ToolsInv, NEW p \in Runs, Shape(p)
  PROVE  TallyInv'
<1> DEFINE s == Steps(p)
<1>1. session' = session /\ Only(p) /\ TypeOK
  BY DEF Shape, ToolsInv
<1>2. ASSUME NEW q \in Runs, Command(q) \in Frames \ {"mxf_extract"}, run'[q].told > 0
      PROVE  /\ run'[q].told >= run'[q].n
             /\ run'[q].told > run'[q].n =>
                  \/ session.how = "beside" /\ run'[q].told <= run'[Other(q)].n
                  \/ run'[q].told = run'[q].n + Strays(q)
             /\ \A l \in DOMAIN Steps(q) : Steps(q)[l].op = "list" => l < run'[q].at
  <2>1. /\ run[Other(q)].n \in Nat /\ run'[Other(q)].n \in Nat /\ run[Other(q)].n <= run'[Other(q)].n
    BY ItemsGrow, RunsFacts
  <2>2. /\ run[q].n \in Nat /\ run'[q].n \in Nat /\ run[q].told \in Nat /\ run'[q].told \in Nat
        /\ run[q].at \in Nat /\ run'[q].at \in Nat
    <3>1. run[q] \in RunState /\ run'[q] \in RunState
      BY <1>1 DEF TypeOK, Shape, Only
    <3> QED
      BY <3>1, ToolsAssumption DEF RunState
  <2>3. run[q].told > 0 =>
          /\ run[q].told >= run[q].n
          /\ run[q].told > run[q].n =>
               \/ session.how = "beside" /\ run[q].told <= run[Other(q)].n
               \/ run[q].told = run[q].n + Strays(q)
          /\ \A l \in DOMAIN Steps(q) : Steps(q)[l].op = "list" => l < run[q].at
    BY <1>2 DEF ToolsInv, TallyInv
  <2>4. CASE q # p
    BY <1>1, <1>2, <2>1, <2>2, <2>3, <2>4 DEF Only
  <2>5. CASE q = p /\ run'[p].told = run[p].told
    <3>1. \A l \in DOMAIN s : l \in Nat
      BY <1>1, <2>5, StepFacts
    <3>2. \A l \in DOMAIN s : s[l].op = "list" => l < run[p].at
      BY <1>2, <2>3, <2>5
    <3>3. run'[p].n = run[p].n
      <4>1. CASE Moves(p)
        <5>1. run[p].at \in DOMAIN s
          BY <1>1, <4>1, StepFacts DEF Moves, ToolsInv, ControlInv
        <5>2. Now(p).op # "list"
          BY <2>2, <2>5, <3>2, <5>1 DEF Now
        <5> QED
          BY <4>1, <5>2 DEF Moves
      <4>2. CASE ~Moves(p)
        BY <4>2 DEF Shape, Begins, Halts, Opened, Turns, Finishes, Stays, Same
      <4> QED
        BY <4>1, <4>2
    <3>4. run'[p].at >= run[p].at
      BY <2>2, <2>5 DEF Shape, Begins, Moves, Halts, Opened, Turns, Finishes, Passes, Stays, Same
    <3>5. \A l \in DOMAIN s : s[l].op = "list" => l < run'[p].at
      BY <2>2, <2>5, <3>1, <3>2, <3>4
    <3> QED
      BY <1>2, <2>1, <2>2, <2>3, <2>5, <3>3, <3>5
  <2>6. CASE q = p /\ run'[p].told # run[p].told
    <3>1. /\ Moves(p) /\ run'[p].at = run[p].at + 1
          /\ \/ Now(p).op = "tally" /\ run'[p].told = Cardinality(Made(p))
             \/ Now(p).op = "report" /\ run'[p].told = run[p].n + Strays(p)
             \/ Now(p).op = "count"
      BY <2>6 DEF Shape, Begins, Moves, Halts, Opened, Turns, Finishes, Stays, Same, Passes
    <3>2. run[p].at \in DOMAIN s /\ DOMAIN s \subseteq Nat
      BY <1>1, <3>1, StepFacts DEF Moves, ToolsInv, ControlInv
    <3>3. TalliesFrames(s)
      BY <1>1, <1>2, <2>6, ScriptFacts DEF Fits, Steps
    <3>4. Now(p).op # "count" /\ Now(p).op # "list"
      BY <3>1, <3>2, <3>3 DEF TalliesFrames, Now
    <3>5. run'[p].n = run[p].n
      BY <3>1, <3>4 DEF Moves
    <3>6. \A l \in DOMAIN s : s[l].op = "list" => l < run'[p].at
      <4>1. ListedBefore(s, run[p].at)
        BY <3>1, <3>2, <3>3, <3>4 DEF TalliesFrames, Now
      <4>2. PICK l \in 1 .. run[p].at - 1 : s[l].op = "list"
        BY <4>1 DEF ListedBefore
      <4>3. l \in DOMAIN s
        BY <1>1, <2>2, <2>6, <3>2, <4>2, StepFacts
      <4>4. \A m \in DOMAIN s : s[m].op = "list" => m = l
        BY <1>1, <4>2, <4>3, StepFacts
      <4> QED
        BY <2>2, <2>6, <3>1, <4>2, <4>4
    <3>7. CASE Now(p).op = "report"
      BY <1>1, <2>2, <2>6, <3>1, <3>5, <3>6, <3>7, StraysFacts
    <3>8. CASE Now(p).op = "tally"
      <4>1. PICK j \in 1 .. run[p].at - 1 : EachStep(s, j) /\ s[j].file = "frame"
        BY <3>2, <3>3, <3>8 DEF TalliesFrames, Now
      <4>2. j \in DOMAIN s /\ run[p].at > j
        BY <1>1, <2>2, <2>6, <3>2, <4>1, StepFacts
      <4>3. /\ Cardinality(Made(p)) \in Nat /\ Cardinality(Made(p)) >= run[p].n
            /\ Cardinality(Made(p)) > run[p].n
                 => session.how = "beside" /\ Cardinality(Made(p)) <= run[Other(p)].n
        BY <4>1, <4>2, MadeFacts
      <4> QED
        BY <2>1, <2>2, <2>6, <3>1, <3>5, <3>6, <3>8, <4>3
    <3> QED
      BY <3>1, <3>4, <3>7, <3>8
  <2> QED
    BY <2>4, <2>5, <2>6
<1> QED
  BY <1>1, <1>2, SessionKept DEF TallyInv

LEMMA FramesAreMade == \A c \in Frames : PerItem(c) = {"frame"}
<1>1. ASSUME NEW c \in Frames
      PROVE  c \notin {"deliver", "kdm", "otioz_import"}
  BY DEF Frames
<1> QED
  BY <1>1 DEF PerItem

(* Once the second run of a chain has started, the first is over.          *)
LEMMA FirstIsOver ==
  ASSUME ToolsInv, NEW p \in Runs, Shape(p), Follows(2), run'[2].status # "idle"
  PROVE  p = 2 /\ EndedWell(1) /\ run'[1] = run[1] /\ run[1].status = "ended"
<1>0. Other(1) = 2 /\ Other(2) = 1
  BY DEF Other
<1>1. EndedWell(1) => run[1].status = "ended"
  <2>1. run[1] \in RunState /\ Control(1, Steps(1), run[1])
    BY ControlParts, RunsFacts DEF ToolsInv, TypeOK
  <2> QED
    BY <2>1 DEF Control, RunState, EndedWell
<1>2. run[2].status # "idle" => EndedWell(1)
  BY RunsFacts DEF ToolsInv, ControlInv
<1>3. CASE p = 1
  <2>1. run'[2] = run[2] /\ run[1].status \in {"idle", "working"}
    BY <1>0, <1>3, RunsFacts, StatusStep
  <2> QED
    BY <1>1, <1>2, <2>1
<1>4. CASE p = 2
  <2>1. run'[1] = run[1]
    BY <1>0, <1>4, RunsFacts, StatusStep
  <2>2. run[2].status = "idle" => EndedWell(1)
    BY <1>4 DEF Shape, Begins, Moves, Halts, Opened, Turns, Finishes, AtMake
  <2> QED
    BY <1>1, <1>2, <1>4, <2>1, <2>2
<1> QED
  BY <1>3, <1>4 DEF Runs

(* All the frames of the first run of a chain are there for the second, and *)
(* it takes them if it reads their kind.                                   *)
LEMMA ReadsAll ==
  ASSUME ToolsInv, TakesFrames(2), session.first \in Frames, EndedWell(1)
  PROVE  Cardinality(Given(2)) =
           IF ImagesOf(session.first) \in Takes(session.second) THEN run[1].n ELSE 0
<1> DEFINE n == run[1].n
           F == Given(2)
           s == Steps(1)
<1>1. /\ TypeOK /\ Command(1) = session.first /\ Command(2) = session.second
      /\ PerItem(Command(1)) = {"frame"} /\ session.via = "frame" /\ Chained(2)
  <2>1. Command(1) = session.first /\ Command(2) = session.second
    BY DEF Command
  <2> QED
    BY <2>1, FramesAreMade DEF ToolsInv, TakesFrames
<1>2. PICK j \in DOMAIN s : EachStep(s, j) /\ s[j].file = "frame"
  <2>1. MakesPerItem(s, "frame")
    BY <1>1, ScriptFacts, RunsFacts DEF Fits, Steps
  <2> QED
    BY <2>1 DEF MakesPerItem
<1>3. n \in Nat /\ run[1].at > j
  <2>1. n \in Nat
    <3>1. run[1] \in RunState
      BY <1>1, RunsFacts DEF TypeOK
    <3> QED
      BY <3>1, ToolsAssumption DEF RunState
  <2>2. run[1].at = Len(s) + 1
    BY RunsFacts DEF ToolsInv, ControlInv
  <2> QED
    BY <1>1, <1>2, <2>1, <2>2, StepFacts, RunsFacts
<1>4. CASE ImagesOf(session.first) \notin Takes(session.second)
  <2>1. F = {}
    <3>1. ASSUME NEW f \in Reads(2)
          PROVE  f[5] = ImagesOf(session.first)
      BY <1>1, ReadsFacts, RunsFacts
    <3> QED
      BY <1>1, <1>4, <3>1 DEF Given
  <2> QED
    BY <1>4, <2>1, FS_EmptySet
<1>5. CASE ImagesOf(session.first) \in Takes(session.second)
  <2>1. ASSUME NEW i \in 1 .. n
        PROVE  File(1, "frame", i) \in F
    <3>1. Name(1, i) = i
      BY <1>1, <1>2, FramesUnnamed, NameFacts, RunsFacts DEF EachStep, Making
    <3>2. File(1, "frame", i) \in DOMAIN disk
      BY <1>2, <1>3, <3>1, RunsFacts DEF ToolsInv, ExistInv, Reached
    <3>3. /\ File(1, "frame", i)[1] = "out1" /\ File(1, "frame", i)[2] = "frame"
          /\ File(1, "frame", i)[5] = ImagesOf(session.first)
      BY <1>1, FileFacts, KindFacts, RunsFacts, OutFacts
    <3> QED
      BY <1>1, <1>5, <3>2, <3>3 DEF Given, Reads
  <2> DEFINE g == [i \in 1 .. n |-> File(1, "frame", i)]
  <2>2. g \in [1 .. n -> F]
    BY <2>1
  <2>3. \A a, b \in 1 .. n : g[a] = g[b] => a = b
    BY FileFacts, RunsFacts
  <2>4. g \in Injection(1 .. n, F)
    BY <2>2, <2>3 DEF Injection, IsInjective
  <2>5. Cardinality(1 .. n) = n
    BY <1>3, FS_Interval
  <2>6. IsFiniteSet(F)
    <3>1. F \subseteq DOMAIN disk /\ IsFiniteSet(DOMAIN disk)
      BY DEF Given, Reads, ToolsInv, DiskInv
    <3> QED
      BY <3>1, FS_Subset
  <2>7. n <= Cardinality(F)
    BY <2>4, <2>5, <2>6, FS_Injection
  <2>8. Cardinality(F) \in 0 .. n
    BY <1>1, ReadsFacts, RunsFacts
  <2> QED
    BY <1>3, <1>5, <2>7, <2>8
<1> QED
  BY <1>4, <1>5

(* The second run of a chain lists the frames of the first.                *)
LEMMA ChainStep ==
  ASSUME ToolsInv, NEW p \in Runs, Shape(p)
  PROVE  ChainInv'
<1> DEFINE s == Steps(2)
<1>1. session' = session /\ Only(p) /\ TypeOK /\ 2 \in Runs /\ 1 \in Runs
  BY RunsFacts DEF Shape, ToolsInv
<1>2. ASSUME TakesFrames(2), session.first \in Frames, run'[2].status # "idle",
             NEW l \in DOMAIN s, s[l].op = "list", Unconditional(s[l]), run'[2].at > l
      PROVE  /\ run'[2].n = IF ImagesOf(session.first) \in Takes(session.second) THEN run'[1].n ELSE 0
             /\ run'[2].n = 0 => s[l].fails # "stop"
  <2>1. p = 2 /\ EndedWell(1) /\ run'[1] = run[1]
    BY <1>2, FirstIsOver DEF TakesFrames, Chained
  <2>2. run[2].at \in Nat /\ l \in Nat \ {0} /\ run[2].at \in 1 .. Len(s) + 1 /\ Len(s) \in Nat
        /\ DOMAIN s = 1 .. Len(s)
    <3>1. run[2] \in RunState
      BY <1>1 DEF TypeOK
    <3>2. run[2].at \in 1 .. Len(s) + 1
      BY <1>1 DEF ToolsInv, ControlInv
    <3>3. DOMAIN s = 1 .. Len(s) /\ Len(s) \in Nat
      BY <1>1, StepFacts
    <3> QED
      BY <1>2, <3>1, <3>2, <3>3 DEF RunState
  <2>3. run[2].status # "idle" /\ run[2].at > l =>
          /\ run[2].n = IF ImagesOf(session.first) \in Takes(session.second) THEN run[1].n ELSE 0
          /\ run[2].n = 0 => s[l].fails # "stop"
    BY <1>2 DEF ToolsInv, ChainInv
  <2>4. run[2].status = "idle" => run'[2].at = 1
    <3>1. run[2].status = "idle" => run[2].at = 1
      BY <1>1 DEF ToolsInv, ControlInv
    <3> QED
      BY <2>1, <3>1 DEF Shape, Begins, Moves, Halts, Opened, Turns, Finishes, AtMake
  <2>5. run[2].status # "idle"
    BY <1>2, <2>2, <2>4
  <2>6. CASE Moves(2)
    <3>1. run'[2].at = run[2].at + 1 /\ run[2].at \in DOMAIN s
      BY <2>2, <2>6 DEF Moves, Passes
    <3>2. CASE run[2].at = l
      <4>1. run'[2].n = Cardinality(Given(2)) /\ (run'[2].n = 0 => s[l].fails # "stop")
        BY <1>2, <2>6, <3>2 DEF Moves, Now
      <4> QED
        BY <1>2, <2>1, <4>1, ReadsAll
    <3>3. CASE run[2].at > l
      <4>1. Now(2).op # "list"
        BY <1>1, <1>2, <2>2, <3>1, <3>3, StepFacts DEF Now
      <4>2. run'[2].n = run[2].n
        BY <2>6, <4>1 DEF Moves
      <4> QED
        BY <2>1, <2>3, <2>5, <3>3, <4>2
    <3> QED
      BY <1>2, <2>2, <3>1, <3>2, <3>3
  <2>7. CASE ~Moves(2)
    <3>1. run'[2].at = run[2].at /\ run'[2].n = run[2].n
      BY <2>1, <2>7 DEF Shape, Begins, Halts, Opened, Turns, Finishes, Stays, Same
    <3> QED
      BY <1>2, <2>1, <2>3, <2>5, <3>1
  <2> QED
    BY <2>6, <2>7
<1> QED
  BY <1>1, <1>2, SessionKept DEF ChainInv

-----------------------------------------------------------------------------
(* What a step of run p does to its files, if nothing slips.               *)
Sound(p) == Target(p) \in DOMAIN disk /\ disk[Target(p)] = [state |-> "torn", of |-> p, item |-> Number(p)]

Closed(p) ==
  /\ AtMake(p) /\ run[p].open /\ Maker(p) # 0
  /\ Wrote(Target(p), IF Sound(p) /\ SoundSources(p) THEN "whole" ELSE "spoiled", Maker(p), Number(p))
  /\ \/ run'[p].failed = run[p].failed
     \/ Now(p).fails = "next" /\ run'[p].failed = FALSE
  /\ \/ Passes(run[p], run'[p]) /\ (~Now(p).each \/ Now(p).op = "until")
     \/ Stays(run[p], run'[p]) /\ ~run'[p].open /\ Now(p).each

Failed(p) ==
  /\ AtMake(p) /\ run[p].open /\ disk' = disk
  /\ \/ Passes(run[p], run'[p]) /\ Now(p).fails = "next" /\ run'[p].failed
     \/ /\ Passes(run[p], run'[p]) /\ Now(p).fails = "go" /\ ~Now(p).each
        /\ run'[p].failed = run[p].failed /\ run'[p].missed
     \/ /\ Stays(run[p], run'[p]) /\ ~run'[p].open /\ Now(p).each
        /\ \/ run'[p].item = run[p].item /\ Now(p).again
           \/ run'[p].noted \/ Now(p).op = "until" \/ Now(p).fails = "go"

Skipped(p) ==
  /\ run[p].status = "working" /\ run[p].at <= Len(Steps(p)) /\ ~run[p].open /\ disk' = disk
  /\ Passes(run[p], run'[p])
  /\ (~Due(p) /\ run'[p].failed = run[p].failed) \/ Now(p).when = "maybe"

Passed(p) ==
  /\ run[p].status = "working" /\ run[p].at <= Len(Steps(p)) /\ Passes(run[p], run'[p])
  /\ run'[p].failed = run[p].failed /\ Now(p).op \notin Making \cup {"abort"}
  /\ \/ disk' = disk
     \/ /\ Now(p).op = "remove" /\ DOMAIN disk' = DOMAIN disk \ {File(p, Now(p).file, 0)}
        /\ \A f \in DOMAIN disk' : disk'[f] = disk[f]

Wore(p) ==
  /\ AtMake(p) /\ ~run[p].open /\ disk' = disk /\ Passes(run[p], run'[p]) /\ Now(p).each

Kind(p) ==
  /\ ~run[p].slips /\ (run[p].noted => run'[p].noted) /\ (run[p].missed => run'[p].missed)
  /\ \/ Begins(p) \/ Halts(p) \/ Closed(p) \/ Failed(p) \/ Skipped(p) \/ Passed(p) \/ Wore(p)
     \/ Finishes(p) /\ run'[p].failed = run[p].failed
     \/ Opened(p) /\ run'[p].failed = run[p].failed

(* Every step of a run is of one of these kinds.                           *)
LEMMA StepKind ==
  ASSUME ToolsInv, NEW p \in Runs, Parse(p) \/ Work(p) \/ Kill(p), ~run'[p].slips
  PROVE  Kind(p)
<1>1. /\ TypeOK /\ ControlInv /\ IsFiniteSet(DOMAIN disk) /\ run[p] \in RunState
      /\ run'[p] \in RunState
  BY StepShape DEF ToolsInv, DiskInv, TypeOK, Shape
<1>2. /\ run[p].slips \in BOOLEAN /\ run'[p].slips \in BOOLEAN
      /\ run[p].noted \in BOOLEAN /\ run'[p].noted \in BOOLEAN
      /\ run[p].missed \in BOOLEAN /\ run'[p].missed \in BOOLEAN
  BY <1>1 DEF RunState
<1>3. /\ run[p].at \in Nat \ {0}
      /\ run[p].open => run[p].item <= Items(p) /\ run[p].at \in 1 .. Len(Steps(p))
      /\ run[p].at <= Len(Steps(p)) => run[p].at \in 1 .. Len(Steps(p))
  <2>1. run[p].at \in 1 .. Len(Steps(p)) + 1 /\ Len(Steps(p)) \in Nat
    BY <1>1, StepFacts DEF ControlInv
  <2> QED
    BY <1>1, <2>1 DEF ControlInv
<1>4. CASE Parse(p)
  BY <1>1, <1>2, <1>4, ParseEffect DEF Kind, Begins
<1>5. CASE Kill(p)
  BY <1>1, <1>2, <1>5, KillEffect DEF Kind, Halts, Same
<1>6. CASE Skip(p)
  BY <1>1, <1>2, <1>6, SkipEffect DEF Kind, Skipped, Same
<1>7. CASE Looks(p) \/ Needs(p)
  <2>1. Now(p).op \notin Making \cup {"abort"}
    BY <1>1, <1>7, LooksEffect DEF Making
  <2> QED
    BY <1>1, <1>2, <1>7, <2>1, LooksEffect DEF Kind, Passed, Halts, Quietly, Same, Stops
<1>8. CASE Aborts(p)
  BY <1>1, <1>2, <1>8, AbortsEffect DEF Kind, Halts, Quietly, Same, Stops
<1>9. CASE Lists(p)
  <2>1. Now(p).op \notin Making \cup {"abort"}
    BY <1>1, <1>9, ListsEffect, ReadsFacts DEF Making
  <2> QED
    BY <1>1, <1>2, <1>9, <2>1, ListsEffect, ReadsFacts DEF Kind, Passed, Halts, Quietly, Same, Stops, Passes
<1>10. CASE Counts(p)
  <2>1. Now(p).op \notin Making \cup {"abort"}
    BY <1>1, <1>10, CountsEffect DEF Making
  <2> QED
    BY <1>1, <1>2, <1>10, <2>1, CountsEffect DEF Kind, Passed, Quietly, Passes
<1>11. CASE Removes(p)
  <2>1. Now(p).op \notin Making \cup {"abort"}
    BY <1>1, <1>11, RemovesEffect DEF Making
  <2> QED
    BY <1>1, <1>2, <1>11, <2>1, RemovesEffect DEF Kind, Passed, Same
<1>12. CASE Opens(p)
  BY <1>1, <1>2, <1>12, OpensEffect DEF Kind, Opened, Same
<1>13. CASE Exhausted(p)
  <2>1. /\ AtMake(p) /\ ~run[p].open /\ run[p].item > Items(p) /\ Quietly(p)
        /\ \/ Stops(run[p], run'[p])
           \/ /\ Passes(run[p], run'[p]) /\ Remembers(run[p], run'[p])
              /\ run'[p].slips = run[p].slips /\ run'[p].missed = run[p].missed /\ Now(p).op # "until"
    BY <1>1, <1>13, ExhaustedEffect
  <2>2. Now(p).fails = "note" => Now(p).each
    BY <1>1, <1>3, <2>1, NowFacts DEF AtMake
  <2>3. Stops(run[p], run'[p]) \/ Now(p).each
    <3>1. ~Now(p).each /\ Now(p).op # "until" => run[p].item = 1 /\ Items(p) = 1
      BY <1>1, <2>1, <2>2 DEF ControlInv, AtMake, Items
    <3> QED
      BY <2>1, <3>1
  <2>4. CASE Stops(run[p], run'[p])
    BY <1>2, <2>1, <2>4 DEF Kind, Halts, Stops, Same, Quietly
  <2>5. CASE ~Stops(run[p], run'[p])
    BY <1>2, <2>1, <2>3, <2>5 DEF Kind, Wore, Remembers, Quietly
  <2> QED
    BY <2>4, <2>5
<1>14. CASE Closes(p)
  <2>1. run[p].item <= Items(p)
    BY <1>3, <1>14 DEF Closes
  <2> QED
    BY <1>1, <1>2, <1>3, <1>14, <2>1, ClosesEffect DEF Kind, Closed, Sound, Remembers
<1>15. CASE Slips(p)
  <2>1. run[p].item <= Items(p)
    BY <1>3, <1>15 DEF Slips
  <2> QED
    BY <1>1, <1>3, <1>15, <2>1, SlipsEffect
<1>16. CASE Fails(p)
  <2>1. run[p].item <= Items(p) /\ run[p].at \in 1 .. Len(Steps(p))
    BY <1>3, <1>16 DEF Fails
  <2>2. Now(p).op = "until" \/ Now(p).fails = "note" => Now(p).each
    BY <1>1, <2>1, NowFacts
  <2>3. AtMake(p) /\ run[p].open /\ disk' = disk /\ run[p].status = "working"
    BY <1>1, <1>16, <2>1, FailsEffect DEF Quietly
  <2>4. \/ Stops(run[p], run'[p])
        \/ Passes(run[p], run'[p]) /\ Same(run[p], run'[p]) /\ run'[p].failed /\ Now(p).fails = "next"
        \/ /\ Passes(run[p], run'[p]) /\ run'[p].failed = run[p].failed /\ run'[p].missed
           /\ run'[p].noted = run[p].noted /\ run'[p].slips = run[p].slips
           /\ Now(p).fails = "go" /\ ~Now(p).each
        \/ /\ Stays(run[p], run'[p]) /\ ~run'[p].open /\ run'[p].slips = run[p].slips
           /\ run'[p].noted \/ run'[p].noted = run[p].noted
           /\ run[p].missed => run'[p].missed
           /\ Now(p).each
           /\ \/ run'[p].item = run[p].item /\ Now(p).again
              \/ run'[p].noted \/ Now(p).op = "until" \/ Now(p).fails = "go"
    BY <1>1, <1>16, <2>1, <2>2, FailsEffect
  <2>5. CASE Stops(run[p], run'[p])
    BY <1>2, <2>3, <2>5 DEF Kind, Halts, Stops, Same
  <2>6. CASE ~Stops(run[p], run'[p])
    BY <1>2, <2>3, <2>4, <2>6 DEF Kind, Failed, Same
  <2> QED
    BY <2>5, <2>6
<1>17. CASE Ends(p)
  BY <1>1, <1>2, <1>17, EndsEffect DEF Kind, Finishes, Same
<1> QED
  BY <1>4, <1>5, <1>6, <1>7, <1>8, <1>9, <1>10, <1>11, <1>12, <1>13, <1>14, <1>15, <1>16, <1>17 DEF Work

-----------------------------------------------------------------------------
(* If run q is undisturbed after a step of p, the step is its own; or the  *)
(* first run of a chain is over, and the step is the second's.             *)
LEMMA Alone ==
  ASSUME ToolsInv, NEW p \in Runs, Shape(p), NEW q \in Runs, Undisturbed(q)',
         run'[q].status # "idle"
  PROVE  q = p \/ (q = 1 /\ p = 2 /\ session.how = "then" /\ EndedWell(1) /\ run[1].status = "ended")
<1>1. session' = session
  BY DEF Shape
<1>2. CASE q # p
  <2>1. q = Other(p) /\ Other(q) = p
    BY <1>2, RunsFacts
  <2>2. run'[p].status # "idle" /\ run'[q].alone = FALSE
    BY <2>1, StatusStep
  <2>3. session.how = "then"
    BY <1>1, <2>1, <2>2, ScriptFacts DEF Undisturbed, ToolsInv
  <2>4. (p = 2 /\ q = 1) \/ (p = 1 /\ q = 2)
    BY <1>2 DEF Runs
  <2>5. run'[2].status # "idle" /\ Follows(2)
    BY <2>2, <2>3, <2>4 DEF Follows
  <2> QED
    BY <2>3, <2>4, <2>5, FirstIsOver
<1> QED
  BY <1>2

LEMMA UndisturbedBefore ==
  ASSUME ToolsInv, NEW p \in Runs, Shape(p), Undisturbed(p)', run[p].status = "working"
  PROVE  Undisturbed(p)
<1>1. session' = session /\ run'[Other(p)] = run[Other(p)] /\ run'[p].alone = run[p].alone
  BY StatusStep DEF Shape
<1> QED
  BY <1>1 DEF Undisturbed

LEMMA TrustedBefore ==
  ASSUME ToolsInv, NEW p \in Runs, Shape(p), Trusted(p)', ~run[p].slips, run[p].status = "working"
  PROVE  Trusted(p)
<1>1. Undisturbed(p)
  BY UndisturbedBefore DEF Trusted
<1>2. Vouched(p)
  <2>1. session' = session /\ (Chained(p) => p = 2)
    BY DEF Shape, Chained, Follows
  <2>2. p = 2 => run'[1] = run[1]
    BY RunsFacts DEF Shape, Only
  <2> QED
    BY <2>1, <2>2, SessionKept DEF Trusted, Vouched
<1> QED
  BY <1>1, <1>2 DEF Trusted

(* What a command has made that ended well.                                *)
LEMMA EndedFacts ==
  ASSUME ToolsInv, NEW p \in Runs, EndedWell(p)
  PROVE  /\ run[p].status = "ended" /\ run[p].at = Len(Steps(p)) + 1 /\ ~run[p].open
         /\ Script(p).exit = "always" \/ ~run[p].noted
         /\ Script(p).exit = "always" \/ ~Script(p).some \/ run[p].got > 0
         /\ run[p].n \in Nat /\ Len(Steps(p)) \in Nat /\ DOMAIN Steps(p) = 1 .. Len(Steps(p))
<1>1. run[p] \in RunState /\ TypeOK
  BY DEF ToolsInv, TypeOK
<1>2. run[p].status = "ended"
  BY <1>1 DEF ToolsInv, ControlInv, EndedWell, RunState
<1>3. run[p].n \in Nat
  BY <1>1, ToolsAssumption DEF RunState
<1> QED
  BY <1>1, <1>2, <1>3, StepFacts DEF ToolsInv, ControlInv, Succeeds

(* Its files are whole: one for every item, or one.                        *)
LEMMA PerItemWhole ==
  ASSUME ToolsInv, NEW p \in Runs, EndedWell(p), Trusted(p), NEW x \in PerItem(Command(p)),
         NEW i \in 1 .. run[p].n
  PROVE  HoldsItem(p, x, i)
<1> DEFINE s == Steps(p)
<1>1. x \notin Shared /\ MakesPerItem(s, x) /\ Script(p).exit # "always"
  BY ScriptFacts DEF ToolsInv, Fits, Steps
<1>2. PICK j \in DOMAIN s : EachStep(s, j) /\ s[j].file = x /\ s[j].needs = "" /\ Final(s, j)
  BY <1>1 DEF MakesPerItem
<1>3. Reached(p, j) = run[p].n
  <2>0. run[p].at = Len(s) + 1 /\ Len(s) \in Nat /\ j \in 1 .. Len(s)
    BY <1>2, EndedFacts
  <2>1. run[p].at > j
    BY <2>0
  <2> QED
    BY <2>1 DEF Reached
<1>4. ~run[p].noted /\ Counted(p, s[j].file) /\ ~Reopened(p, j, i)
  BY <1>1, <1>2, EndedFacts DEF Counted, Reopened
<1> QED
  BY <1>2, <1>3, <1>4 DEF ToolsInv, EachInv

LEMMA ThereHasName ==
  ASSUME TypeOK, NEW p \in Runs, NEW x, NEW k \in 1 .. Len(Steps(p)) + 1,
         There(Steps(p), x, k)
  PROVE  x \in Names
<1> DEFINE s == Steps(p)
<1>1. \A i \in 1 .. k - 1 : i \in DOMAIN s /\ s[i].file \in Names
  <2>1. ASSUME NEW i \in 1 .. k - 1
        PROVE  i \in DOMAIN s /\ s[i] \in StepSet
    BY StepFacts
  <2> QED
    BY <2>1 DEF StepSet
<1>2. PICK j \in 1 .. k - 1 : Insists(s[j], x) \/ ThereUnlessFailed(s, x, j)
  BY DEF There
<1>3. CASE Insists(s[j], x)
  BY <1>1, <1>3 DEF Insists, Writes
<1>4. CASE ThereUnlessFailed(s, x, j)
  <2>1. PICK i \in 1 .. j - 1 : Writes(s[i], x)
    BY <1>4 DEF ThereUnlessFailed
  <2>2. i \in 1 .. k - 1
    BY StepFacts
  <2> QED
    BY <1>1, <2>1, <2>2 DEF Writes
<1> QED
  BY <1>2, <1>3, <1>4

LEMMA SingleWhole ==
  ASSUME ToolsInv, NEW p \in Runs, EndedWell(p), Trusted(p), NEW x \in Single(Command(p))
  PROVE  IsWhole(p, x)
<1> DEFINE s == Steps(p)
<1>1. x \notin Shared /\ MakesOne(s, x) /\ TypeOK
  BY ScriptFacts DEF ToolsInv, Fits, Steps
<1>2. There(s, x, Len(s) + 1) /\ run[p].at = Len(s) + 1 /\ Len(s) + 1 \in 1 .. Len(s) + 1
  BY <1>1, EndedFacts DEF MakesOne
<1>3. x \in Names
  BY <1>1, <1>2, ThereHasName
<1>4. Counted(p, x) /\ ~Rewriting(p, x)
  BY <1>1, EndedFacts DEF Counted, Rewriting
<1> QED
  BY <1>2, <1>3, <1>4 DEF ToolsInv, OneInv

(* What the second run of a chain reads is whole.                          *)
LEMMA ReadsWhole ==
  ASSUME ToolsInv, NEW p \in Runs, Trusted(p), run[p].status = "working", NEW f \in Reads(p)
  PROVE  f \in DOMAIN disk /\ disk[f].state = "whole"
<1> DEFINE x == session.via
<1>1. Chained(p) /\ f \in DOMAIN disk /\ f[1] = "out1" /\ f[2] = x
  BY DEF Reads
<1>2. p = 2 /\ session.how = "then" /\ TypeOK /\ 1 \in Runs
  BY <1>1, RunsFacts DEF Chained, Follows, ToolsInv
<1>3. EndedWell(1)
  BY <1>1, <1>2 DEF Chained, ToolsInv, ControlInv
<1>4. Trusted(1) /\ x \in ProductNames(Command(1))
  <2>1. ~run[1].slips /\ x \in ProductNames(Command(1))
    BY <1>1 DEF Trusted, Vouched, Command
  <2>2. Undisturbed(1) /\ Vouched(1)
    BY <1>2 DEF Undisturbed, Vouched, Chained, Follows
  <2> QED
    BY <2>1, <2>2 DEF Trusted
<1>5. PICK q \in Runs : MadeBy(f, q)
  BY <1>1 DEF ToolsInv, DiskInv
<1>6. PICK k \in DOMAIN Steps(q) :
        /\ Steps(q)[k].op \in Making
        /\ \/ ~Steps(q)[k].each /\ f = File(q, Steps(q)[k].file, 0)
           \/ Steps(q)[k].each /\ \E i \in 1 .. run[q].n : f = File(q, Steps(q)[k].file, Name(q, i))
  BY <1>5 DEF MadeBy
<1>7. q = 1 /\ Steps(q)[k].file = x
  <2>1. f[1] = (IF Steps(q)[k].file \in Shared THEN "tmp" ELSE Out(q)) /\ f[2] = Steps(q)[k].file
    BY <1>6, FileFacts
  <2>2. Out(q) = "out1"
    BY <1>1, <2>1
  <2> QED
    BY <1>1, <1>2, <2>1, <2>2, OutFacts DEF Runs
<1>8. CASE x \in PerItem(Command(1))
  <2>1. MakesPerItem(Steps(1), x)
    BY <1>2, <1>8, ScriptFacts DEF Fits, Steps
  <2>2. PICK i \in 1 .. run[1].n : f = File(1, x, Name(1, i))
    BY <1>6, <1>7, <2>1 DEF MakesPerItem
  <2>3. HoldsItem(1, x, i)
    BY <1>2, <1>3, <1>4, <1>8, PerItemWhole
  <2> QED
    BY <2>2, <2>3 DEF HoldsItem
<1>9. CASE x \in Single(Command(1))
  <2>1. MakesOne(Steps(1), x)
    BY <1>2, <1>9, ScriptFacts DEF Fits, Steps
  <2>2. f = File(1, x, 0)
    BY <1>6, <1>7, <2>1 DEF MakesOne
  <2>3. IsWhole(1, x)
    BY <1>2, <1>3, <1>4, <1>9, SingleWhole
  <2> QED
    BY <2>2, <2>3 DEF IsWhole
<1> QED
  BY <1>4, <1>8, <1>9 DEF ProductNames

(* A step that is supplied makes a whole file of its run's own.            *)
LEMMA SupplyFacts ==
  ASSUME ToolsInv, NEW p \in Runs, Trusted(p), Closed(p), run[p].at \in DOMAIN Steps(p),
         Supplied(Steps(p), run[p].at)
  PROVE  Wrote(Target(p), "whole", p, Number(p))
<1> DEFINE s == Steps(p)
           k == run[p].at
           y == Now(p).needs
<1>1. Now(p) = s[k] /\ run[p].status = "working" /\ run[p].open /\ TypeOK
  BY DEF Now, Closed, AtMake, ToolsInv
<1>2. y # "" => IsWhole(p, y)
  <2> SUFFICES ASSUME y # "" PROVE IsWhole(p, y)
    OBVIOUS
  <2>1. y # Now(p).file /\ SelfMade(s, y, k)
    BY <1>1 DEF Supplied
  <2>2. PICK j \in 1 .. k - 1 :
          Insists(s[j], y) /\ s[j].when = "any" /\ s[j].needs = "" /\ Untouched(s, y, j, k)
    BY <2>1 DEF SelfMade
  <2>3. There(s, y, k)
    BY <2>2 DEF There, Supplied
  <2>4. y \in Names
    <3>1. s[k] \in StepSet
      BY <1>1, StepFacts
    <3> QED
      BY <1>1, <3>1 DEF StepSet
  <2>5. Counted(p, y) /\ ~Rewriting(p, y)
    BY <1>1, <2>1 DEF Counted, Rewriting, Writes
  <2> QED
    BY <2>3, <2>4, <2>5 DEF ToolsInv, OneInv
<1>3. y # "" => Temporary(p) \in DOMAIN disk /\ disk[Temporary(p)] = [state |-> "whole", of |-> p, item |-> 0]
  BY <1>2 DEF Temporary, IsWhole
<1>7. y # "" => Temporary(p) \in DOMAIN disk /\ disk[Temporary(p)].of = p
                /\ disk[Temporary(p)].state = "whole"
  <2> DEFINE w == [state |-> "whole", of |-> p, item |-> 0]
  <2>1. w.of = p /\ w.state = "whole"
    OBVIOUS
  <2> HIDE DEF w
  <2> QED
    BY <1>3, <2>1 DEF w
<1>6. Maker(p) = p
  BY <1>7 DEF Maker
<1>4. SoundSources(p)
  <2>1. ASSUME NEW f \in Sources(p)
        PROVE  f \in DOMAIN disk /\ disk[f].state = "whole"
    <3>1. CASE y # "" /\ f = Temporary(p)
      BY <1>7, <3>1
    <3>2. CASE f \in Reads(p)
      BY <1>1, <3>2, ReadsWhole
    <3> QED
      BY <2>1, <3>1, <3>2 DEF Sources, Given
  <2> QED
    BY <2>1 DEF SoundSources
<1>5. Sound(p)
  BY <1>1 DEF ToolsInv, TornInv, Sound, Trusted
<1> QED
  BY <1>4, <1>5, <1>6 DEF Closed

-----------------------------------------------------------------------------
(* A file stays as it is unless it is written again or removed.            *)
LEMMA FileKept ==
  ASSUME ToolsInv, NEW p \in Runs, Shape(p), NEW f,
         AtMake(p) => disk' = disk \/ f # Target(p),
         Now(p).op = "remove" => f # File(p, Now(p).file, 0)
  PROVE  (f \in DOMAIN disk' <=> f \in DOMAIN disk) /\ (f \in DOMAIN disk => disk'[f] = disk[f])
<1>1. CASE disk' = disk
  BY <1>1
<1>2. CASE /\ disk' # disk /\ AtMake(p)
           /\ \E s \in {"torn", "spoiled", "whole"}, o \in Runs : Wrote(Target(p), s, o, Number(p))
  <2>1. f # Target(p)
    BY <1>2
  <2> QED
    BY <1>2, <2>1 DEF Wrote
<1>3. CASE /\ Now(p).op = "remove" /\ DOMAIN disk' = DOMAIN disk \ {File(p, Now(p).file, 0)}
           /\ \A g \in DOMAIN disk' : disk'[g] = disk[g]
  <2>1. f # File(p, Now(p).file, 0)
    BY <1>3
  <2> QED
    BY <1>3, <2>1
<1> QED
  BY <1>1, <1>2, <1>3 DEF Shape, DiskStep

(* What is said of a file holds as long as the file stays as it is.        *)
LEMMA SaidOfFiles ==
  ASSUME ToolsInv, NEW p \in Runs, Shape(p), NEW q \in Runs, NEW x, NEW i, NEW f, f = File(q, x, i),
         f \in DOMAIN disk' <=> f \in DOMAIN disk, f \in DOMAIN disk => disk'[f] = disk[f]
  PROVE  /\ i = 0 /\ IsWhole(q, x) => IsWhole(q, x)'
         /\ i = 0 /\ NotTorn(q, x) => NotTorn(q, x)'
         /\ \A m : i = Name(q, m) /\ HoldsItem(q, x, m) => HoldsItem(q, x, m)'
<1>1. session' = session
  BY DEF Shape
<1>2. File(q, x, 0)' = File(q, x, 0) /\ \A m : Name(q, m)' = Name(q, m) /\ File(q, x, Name(q, m))' = File(q, x, Name(q, m))
  BY <1>1, SessionKept DEF File, Name, Out, Command
<1>3. ASSUME i = 0, IsWhole(q, x)
      PROVE  IsWhole(q, x)'
  BY <1>2, <1>3 DEF IsWhole
<1>4. ASSUME i = 0, NotTorn(q, x)
      PROVE  NotTorn(q, x)'
  BY <1>2, <1>4 DEF NotTorn
<1>5. ASSUME NEW m, i = Name(q, m), HoldsItem(q, x, m)
      PROVE  HoldsItem(q, x, m)'
  <2>1. f = File(q, x, Name(q, m)) /\ f = File(q, x, Name(q, m))'
    BY <1>2, <1>5
  <2>2. PICK o \in Namesakes(q, m) : disk[f] = [state |-> "whole", of |-> q, item |-> o]
    BY <1>5, <2>1 DEF HoldsItem
  <2>3. f \in DOMAIN disk
    BY <1>5, <2>1 DEF HoldsItem
  <2>4. o \in Namesakes(q, m)'
    <3>1. run[q].n \in Nat /\ run'[q].n \in Nat /\ run[q].n <= run'[q].n
      BY ItemsGrow
    <3>2. o \in m .. run[q].n /\ Name(q, o) = Name(q, m)
      BY <2>2 DEF Namesakes
    <3>3. o \in m .. run'[q].n /\ Name(q, o)' = Name(q, m)'
      BY <1>2, <3>1, <3>2
    <3> QED
      BY <3>3 DEF Namesakes
  <2>5. f \in DOMAIN disk' /\ disk'[f] = [state |-> "whole", of |-> q, item |-> o]
    BY <2>2, <2>3
  <2> QED
    BY <2>1, <2>4, <2>5 DEF HoldsItem
<1> QED
  BY <1>3, <1>4, <1>5

(* The second run of a chain writes nothing of the first's.                *)
LEMMA FirstKept ==
  ASSUME ToolsInv, Shape(2), session.how = "then", NEW x, x \notin Shared
  PROVE  /\ IsWhole(1, x) => IsWhole(1, x)'
         /\ NotTorn(1, x) => NotTorn(1, x)'
         /\ \A i : HoldsItem(1, x, i) => HoldsItem(1, x, i)'
<1>1. 1 \in Runs /\ 2 \in Runs /\ Out(1) = "out1" /\ Out(2) = "out2"
  BY RunsFacts, OutFacts DEF ToolsInv
<1>2. \A i, y, j : File(1, x, i) # File(2, y, j)
  <2>1. \A i : File(1, x, i)[1] = "out1"
    BY <1>1, FileFacts
  <2>2. \A y, j : File(2, y, j)[1] # "out1"
    BY <1>1 DEF File
  <2> QED
    BY <2>1, <2>2
<1>3. ASSUME NEW i
      PROVE  /\ File(1, x, i) \in DOMAIN disk' <=> File(1, x, i) \in DOMAIN disk
             /\ File(1, x, i) \in DOMAIN disk => disk'[File(1, x, i)] = disk[File(1, x, i)]
  <2>1. File(1, x, i) # Target(2) /\ File(1, x, i) # File(2, Now(2).file, 0)
    BY <1>2 DEF Target
  <2> QED
    BY <1>1, <2>1, FileKept
<1>4. ASSUME NEW i
      PROVE  /\ i = 0 /\ IsWhole(1, x) => IsWhole(1, x)'
             /\ i = 0 /\ NotTorn(1, x) => NotTorn(1, x)'
             /\ \A m : i = Name(1, m) /\ HoldsItem(1, x, m) => HoldsItem(1, x, m)'
  BY <1>1, <1>3, SaidOfFiles
<1> QED
  BY <1>4

LEMMA CountedFacts ==
  ASSUME ToolsInv, NEW p \in Runs, Shape(p), NEW q \in Runs, NEW x, Counted(q, x)'
  PROVE  /\ run'[q].status # "idle"
         /\ run'[q].status = "working" \/ (run'[q].status = "ended" /\ run'[q].exit = 0 /\ x \notin Shared)
<1>1. run'[q].status = "working" \/ (run'[q].exit = 0 /\ x \notin Shared)
  BY DEF Counted, EndedWell
<1>2. run'[q].status \in {"idle", "working", "killed"} => run'[q].exit = 2
  BY ControlStep DEF ControlInv
<1>3. run'[q].status \in {"idle", "working", "ended", "killed"}
  <2>1. run'[q] \in RunState
    BY TypeStep DEF TypeOK
  <2> QED
    BY <2>1 DEF RunState
<1> QED
  BY <1>1, <1>2, <1>3

(* An open file is its run's own.                                          *)
LEMMA TornStep ==
  ASSUME ToolsInv, NEW p \in Runs, Shape(p)
  PROVE  TornInv'
<1>1. session' = session /\ Only(p) /\ TypeOK /\ Len(Steps(p)) \in Nat
  BY StepFacts DEF Shape, ToolsInv
<1>2. ASSUME NEW q \in Runs, run'[q].open, Undisturbed(q)'
      PROVE  /\ q = p /\ Wrote(Target(p), "torn", p, Number(p))
             /\ Target(p)' = Target(p) /\ Number(p)' = Number(p)
  <2>1. run'[q].status = "working"
    BY <1>2, ControlStep DEF ControlInv
  <2>2. q = p
    <3>1. CASE q = 1 /\ run[1].status = "ended" /\ p = 2
      BY <1>1, <2>1, <3>1 DEF Only
    <3> QED
      BY <1>2, <2>1, <3>1, Alone
  <2>3. run[p].open => run[p].status = "working" /\ run[p].at <= Len(Steps(p))
    BY DEF ToolsInv, ControlInv
  <2>4. Opened(p)
    BY <1>1, <1>2, <2>2, <2>3 DEF Shape, Begins, Moves, Halts, Turns, Finishes, Passes
  <2>5. run'[p].at = run[p].at /\ run'[p].item = run[p].item
    BY <2>4 DEF Opened, Stays
  <2>6. Target(p)' = Target(p) /\ Number(p)' = Number(p)
    BY <1>1, <2>5 DEF Target, Number, Now, Name, File, Out, Steps, Script, Command
  <2> QED
    BY <2>2, <2>4, <2>6 DEF Opened
<1> QED
  BY <1>2 DEF TornInv, Wrote

(* The files made so far for the items are whole.                          *)
LEMMA EachInvStep ==
  ASSUME ToolsInv, NEW p \in Runs, Shape(p), run'[p].slips \/ Kind(p)
  PROVE  EachInv'
<1>1. session' = session /\ Only(p) /\ TypeOK
  BY DEF Shape, ToolsInv
<1>2. ASSUME NEW q \in Runs, NEW j \in DOMAIN Steps(q), NEW x, x = Steps(q)[j].file,
             Trusted(q)', ~run'[q].noted, Counted(q, x)', EachStep(Steps(q), j),
             Steps(q)[j].needs = "", Final(Steps(q), j), NEW i, i \in 1 .. Reached(q, j)',
             ~(run'[q].open /\ run'[q].at = j /\ Name(q, run'[q].item) = Name(q, i))
      PROVE  HoldsItem(q, x, i)'
  <2> DEFINE s == Steps(q)
  <2>1. Undisturbed(q)' /\ ~run'[q].slips
    BY <1>2 DEF Trusted
  <2>2. /\ run'[q].status # "idle"
        /\ run'[q].status = "working" \/ (run'[q].status = "ended" /\ run'[q].exit = 0 /\ x \notin Shared)
    BY <1>2, CountedFacts
  <2>5. i \in 1 .. Reached(q, j)' /\ x = s[j].file
    BY <1>2
  <2>3. CASE q = 1 /\ p = 2 /\ session.how = "then" /\ EndedWell(1) /\ run[1].status = "ended"
    <3>1. run'[1] = run[1] /\ x \notin Shared
      BY <1>1, <2>2, <2>3 DEF Only
    <3>2. Trusted(1) /\ ~run[1].noted /\ Counted(1, x)
      <4>1. ~run[1].slips /\ ~run[1].noted
        BY <1>2, <2>1, <2>3, <3>1
      <4>2. Undisturbed(1) /\ Vouched(1)
        BY <2>3 DEF Undisturbed, Vouched, Chained, Follows
      <4> QED
        BY <2>3, <3>1, <4>1, <4>2 DEF Trusted, Counted
    <3>3. i \in 1 .. Reached(1, j)
      BY <1>1, <1>2, <2>3, <3>1 DEF Reached
    <3>4. HoldsItem(1, x, i)
      <4>1. ~Reopened(1, j, i)
        BY <1>2, <2>3, <3>1 DEF Reopened
      <4> QED
        BY <1>2, <2>3, <3>2, <3>3, <4>1 DEF ToolsInv, EachInv
    <3> QED
      BY <2>3, <3>1, <3>4, FirstKept
  <2>4. CASE q = p
    <3>1. Kind(p) /\ ~run[p].slips /\ (run[p].noted => run'[p].noted)
      BY <2>1, <2>4 DEF Kind
    <3>2. i \in Nat \ {0} /\ j \in Nat \ {0} /\ run[p].item \in Nat \ {0} /\ run[p].at \in Nat
          /\ run[p].n \in Nat
      <4>0. run[p] \in RunState /\ run'[p] \in RunState
        BY <1>1 DEF Shape, TypeOK
      <4>1. /\ run'[p].n \in Nat /\ run'[p].at \in Nat /\ run[p].at \in Nat
            /\ run'[p].item \in Nat \ {0} /\ run[p].item \in Nat \ {0} /\ run[p].n \in Nat
        BY <4>0, ToolsAssumption DEF RunState
      <4>2. Reached(q, j)' \in Nat
        BY <2>4, <4>1 DEF Reached
      <4>3. j \in Nat \ {0}
        BY <1>1, StepFacts
      <4> QED
        BY <2>5, <4>1, <4>2, <4>3
    <3>3. run[p].status = "working"
      <4>1. CASE run[p].status = "idle"
        <5>1. Begins(p) /\ run[p].at = 1 /\ run[p].item = 1 /\ run[p].n = 0
          BY <4>1, <2>2, <2>4 DEF Shape, Begins, Moves, Halts, Opened, Turns, Finishes, AtMake, ToolsInv, ControlInv
        <5>2. run'[p].at = 1 /\ run'[p].item = 1 /\ run'[p].n = 0
          BY <5>1 DEF Begins
        <5>3. i \in 1 .. (IF 1 > j THEN 0 ELSE IF 1 = j THEN 1 - 1 ELSE 0)
          BY <1>2, <2>4, <5>2 DEF Reached
        <5> QED
          BY <3>2, <5>3
      <4> QED
        BY <4>1, StatusStep
    <3>4. Trusted(p)
      BY <1>2, <2>4, <3>1, <3>3, TrustedBefore
    <3>5. run[p].open => run[p].item <= Items(p)
      BY DEF ToolsInv, ControlInv
    <3>6. CASE Closed(p) /\ run[p].at = j /\ Name(p, run[p].item) = Name(p, i) /\ i <= run[p].item
      <4>1. Now(p) = s[j] /\ Now(p).each /\ run[p].item <= run[p].n
        BY <1>2, <2>4, <3>5, <3>6 DEF Now, EachStep, Closed, Items
      <4>2. Supplied(s, j)
        BY <1>2 DEF Supplied
      <4>3. Wrote(Target(p), "whole", p, run[p].item)
        BY <1>2, <2>4, <3>4, <3>6, <4>1, <4>2, SupplyFacts DEF Number
      <4>4. Target(p) = File(p, x, Name(p, i)) /\ File(p, x, Name(p, i))' = File(p, x, Name(p, i))
        BY <1>1, <2>5, <3>6, <4>1 DEF Target, File, Out, Name, Command
      <4>5. run[p].item \in Namesakes(p, i)'
        <5>1. run'[p].n \in Nat /\ run[p].n <= run'[p].n
          BY ItemsGrow
        <5>2. run[p].item \in i .. run'[p].n
          BY <3>2, <3>6, <4>1, <5>1
        <5>3. \A m : Name(p, m)' = Name(p, m)
          BY <1>1, SessionKept
        <5> QED
          BY <3>6, <5>2, <5>3 DEF Namesakes
      <4> QED
        BY <2>4, <4>3, <4>4, <4>5 DEF Wrote, HoldsItem
    <3>7. CASE i \in 1 .. Reached(p, j) /\ Reopened(p, j, i)
      <4>1. run[p].open /\ run[p].at = j /\ Name(p, run[p].item) = Name(p, i) /\ i <= run[p].item
        BY <3>2, <3>7 DEF Reopened, Reached
      <4>2. Now(p) = s[j] /\ Now(p).each /\ Now(p).op = "make" /\ Now(p).fails \in {"stop", "note"}
            /\ ~Now(p).again
        BY <1>2, <2>4, <4>1 DEF Now, EachStep
      <4>3. run[p].at <= Len(Steps(p))
        BY <4>1 DEF ToolsInv, ControlInv
      <4>4. run'[p].status = "working" \/ run'[p].exit = 0
        BY <2>2, <2>4
      <4>5. ~Halts(p)
        BY <3>3, <4>4, StatusStep DEF Halts, ToolsInv, ControlInv
      <4>6. ~Failed(p)
        BY <1>2, <2>4, <4>2 DEF Failed
      <4>7. Closed(p)
        <5>1. run[p].at # Len(Steps(p)) + 1
          BY <1>1, <4>3, StepFacts
        <5>2. ~Begins(p) /\ ~Finishes(p) /\ ~Passed(p)
          BY <3>3, <4>2, <5>1 DEF Begins, Finishes, Passed, Making
        <5>3. ~Skipped(p) /\ ~Wore(p) /\ ~Opened(p)
          BY <4>1 DEF Skipped, Wore, Opened
        <5> QED
          BY <3>1, <4>5, <4>6, <5>2, <5>3 DEF Kind
      <4> QED
        BY <3>6, <4>1, <4>7
    <3>8. CASE i \in 1 .. Reached(p, j) /\ ~Reopened(p, j, i)
      <4>1. HoldsItem(p, x, i)
        BY <1>2, <2>4, <3>1, <3>3, <3>4, <3>8 DEF ToolsInv, EachInv, Counted
      <4>2. Name(p, i) \in Nat \ {0}
        BY <1>1, <3>2, NameFacts
      <4>3. AtMake(p) => disk' = disk \/ File(p, x, Name(p, i)) # Target(p)
        <5> SUFFICES ASSUME AtMake(p), File(p, x, Name(p, i)) = Target(p) PROVE disk' = disk
          OBVIOUS
        <5>1. Now(p).each /\ Now(p).file = x /\ Name(p, run[p].item) = Name(p, i)
          BY <4>2, FileFacts DEF Target
        <5>2. run[p].at \in DOMAIN s /\ DOMAIN s = 1 .. Len(s) /\ Len(s) \in Nat
          BY <1>1, <2>4, <3>2, StepFacts DEF AtMake, ToolsInv, ControlInv
        <5>3. run[p].at > j => FALSE
          <6>1. Now(p) = s[run[p].at] /\ Now(p).op \in Making /\ Final(s, j)
            BY <1>2, <2>4 DEF AtMake, Now
          <6> QED
            BY <2>5, <3>2, <5>1, <5>2, <6>1 DEF Final
        <5>4. run[p].at < j => FALSE
          BY <3>2, <3>8 DEF Reached
        <5>5. run[p].at = j
          BY <3>2, <5>3, <5>4
        <5>6. ~run[p].open
          BY <3>8, <5>1, <5>5 DEF Reopened
        <5>7. ~Opened(p)
          BY <1>2, <2>4, <5>1, <5>5 DEF Opened, Stays
        <5>8. ~Closed(p)
          BY <5>6 DEF Closed
        <5> QED
          BY <3>1, <5>7, <5>8 DEF Kind, Begins, Halts, Failed, Skipped, Passed, Wore, Finishes, AtMake
      <4>4. File(p, x, Name(p, i)) # File(p, Now(p).file, 0)
        BY <4>2, FileFacts
      <4> QED
        BY <2>4, <4>1, <4>3, <4>4, FileKept, SaidOfFiles
    <3>9. CASE Turns(p) /\ run[p].at = j /\ i = run[p].item /\ run'[p].item = run[p].item + 1
      <4>1. Now(p) = s[j] /\ Now(p).each /\ Now(p).op = "make" /\ Now(p).fails \in {"stop", "note"}
            /\ ~Now(p).again
        BY <1>2, <2>4, <3>9 DEF Now, EachStep
      <4>2. Closed(p)
        <5>1. /\ run[p].open /\ ~run'[p].open /\ run'[p].at = run[p].at /\ run'[p].status = "working"
              /\ run'[p].item # run[p].item
          BY <3>2, <3>9 DEF Turns, Stays
        <5>2. ~Failed(p)
          <6>1. ~Passes(run[p], run'[p])
            BY <3>2, <5>1 DEF Passes
          <6> QED
            BY <1>2, <2>4, <4>1, <5>1, <6>1 DEF Failed
        <5> QED
          BY <3>1, <3>2, <3>3, <5>1, <5>2 DEF Kind, Begins, Halts, Skipped, Passed, Wore, Finishes, Opened, Passes
      <4> QED
        BY <3>2, <3>6, <3>9, <4>2
    <3> QED
      BY <1>2, <2>4, <3>7, <3>8, <3>9, ReachedStep
  <2> QED
    BY <2>1, <2>2, <2>3, <2>4, Alone
<1> DEFINE Holds2(q, x, i) ==
             /\ File(q, x, Name(q, i)) \in DOMAIN disk'
             /\ \E m \in i .. run'[q].n :
                  /\ Name(q, m) = Name(q, i)
                  /\ disk'[File(q, x, Name(q, i))] = [state |-> "whole", of |-> q, item |-> m]
           Counted2(q, x) == run'[q].status = "working" \/ (run'[q].exit = 0 /\ x \notin Shared)
           Reopened2(q, j, i) == run'[q].open /\ run'[q].at = j /\ Name(q, run'[q].item) = Name(q, i)
<1>3. /\ \A q : Steps(q)' = Steps(q) /\ \A i : Name(q, i)' = Name(q, i)
      /\ \A q, x, i : File(q, x, i)' = File(q, x, i)
  BY <1>1, SessionKept
<1>4. ASSUME NEW q \in Runs, NEW x, NEW i
      PROVE  (HoldsItem(q, x, i)' <=> Holds2(q, x, i)) /\ (Counted(q, x)' <=> Counted2(q, x))
  <2>1. File(q, x, Name(q, i))' = File(q, x, Name(q, i))
    BY <1>1, <1>3 DEF File, Name, Out, Command
  <2>2. \A m : m \in Namesakes(q, i)' <=> m \in i .. run'[q].n /\ Name(q, m) = Name(q, i)
    BY <1>3 DEF Namesakes
  <2> QED
    BY <2>1, <2>2 DEF HoldsItem, Counted, EndedWell
<1>5. ASSUME NEW q \in Runs, NEW j, NEW i
      PROVE  Reopened(q, j, i)' <=> Reopened2(q, j, i)
  <2>1. Name(q, run[q].item)' = Name(q, run'[q].item)
    BY <1>1 DEF Name
  <2> QED
    BY <1>3, <2>1 DEF Reopened
<1>6. ASSUME NEW q \in Runs, NEW j \in DOMAIN Steps(q),
             Trusted(q)', ~run'[q].noted, Counted2(q, Steps(q)[j].file), EachStep(Steps(q), j),
             Steps(q)[j].needs = "", Final(Steps(q), j), NEW i \in 1 .. Reached(q, j)',
             ~Reopened2(q, j, i)
      PROVE  Holds2(q, Steps(q)[j].file, i)
  <2> HIDE DEF Holds2, Counted2
  <2>1. \A x : x = Steps(q)[j].file => Holds2(q, x, i)
    BY <1>2, <1>4, <1>6
  <2> QED
    BY <2>1
<1>7. ASSUME NEW q \in Runs, NEW j \in DOMAIN Steps(q)
      PROVE  /\ Counted(q, Steps(q)[j].file)' <=> Counted2(q, Steps(q)[j].file)
             /\ \A i : HoldsItem(q, Steps(q)[j].file, i)' <=> Holds2(q, Steps(q)[j].file, i)
  <2> DEFINE x == Steps(q)[j].file
  <2>1. x' = x
    BY <1>3
  <2>2. \A i : File(q, x, Name(q, i))' = File(q, x, Name(q, i))
    BY <1>1, <1>3, <2>1 DEF File, Name, Out, Command
  <2>3. \A i, m : m \in Namesakes(q, i)' <=> m \in i .. run'[q].n /\ Name(q, m) = Name(q, i)
    BY <1>3 DEF Namesakes
  <2> HIDE DEF x
  <2>4. /\ Counted(q, x)' <=> Counted2(q, x)
        /\ \A i : HoldsItem(q, x, i)' <=> Holds2(q, x, i)
    BY <2>1, <2>2, <2>3 DEF HoldsItem, Counted, EndedWell
  <2> QED
    BY <2>4 DEF x
<1> HIDE DEF Holds2, Counted2, Reopened2
<1>8. ASSUME NEW q \in Runs, NEW j \in DOMAIN Steps(q)
      PROVE  /\ Trusted(q)' /\ ~run'[q].noted /\ Counted(q, Steps(q)[j].file)'
             /\ EachStep(Steps(q), j) /\ Steps(q)[j].needs = "" /\ Final(Steps(q), j)
             => \A i \in 1 .. Reached(q, j)' : ~Reopened(q, j, i)' => HoldsItem(q, Steps(q)[j].file, i)'
  BY <1>5, <1>6, <1>7
<1> QED
  BY <1>3, <1>8 DEF EachInv

(* How a file can be there after one more step.                            *)
LEMMA ThereSplit ==
  ASSUME NEW s, NEW x, NEW k \in Nat \ {0}, There(s, x, k + 1)
  PROVE  \/ There(s, x, k) /\ ~Touches(s[k], x)
         \/ Insists(s[k], x) /\ s[k].when = "any" /\ Supplied(s, k)
         \/ Insists(s[k], x) /\ s[k].when = "failed" /\ Supplied(s, k) /\ ThereUnlessFailed(s, x, k)
         \/ /\ s[k].op = "abort" /\ s[k].when = "failed" /\ s[k].track = "any" /\ ~s[k].each
            /\ ThereUnlessFailed(s, x, k)
<1>1. PICK j \in 1 .. k :
        /\ Untouched(s, x, j, k + 1)
        /\ \/ Insists(s[j], x) /\ s[j].when = "any" /\ Supplied(s, j)
           \/ Insists(s[j], x) /\ s[j].when = "failed" /\ Supplied(s, j) /\ ThereUnlessFailed(s, x, j)
           \/ /\ s[j].op = "abort" /\ s[j].when = "failed" /\ s[j].track = "any" /\ ~s[j].each
              /\ ThereUnlessFailed(s, x, j)
  <2>1. (k + 1) - 1 = k
    OBVIOUS
  <2> QED
    BY <2>1 DEF There
<1>2. CASE j = k
  BY <1>1, <1>2
<1>3. CASE j < k
  <2>1. j \in 1 .. k - 1 /\ Untouched(s, x, j, k) /\ ~Touches(s[k], x)
    BY <1>1, <1>3 DEF Untouched
  <2> QED
    BY <1>1, <2>1 DEF There
<1> QED
  BY <1>2, <1>3

LEMMA UnlessSplit ==
  ASSUME NEW s, NEW x, NEW k \in Nat \ {0}, ThereUnlessFailed(s, x, k + 1)
  PROVE  \/ ThereUnlessFailed(s, x, k) /\ ~Touches(s[k], x) /\ ~Forgives(s[k])
         \/ /\ Writes(s[k], x) /\ s[k].op = "make" /\ s[k].fails = "next" /\ Unconditional(s[k])
            /\ Supplied(s, k)
<1>1. PICK i \in 1 .. k :
        /\ Writes(s[i], x) /\ s[i].op = "make" /\ s[i].fails = "next" /\ Unconditional(s[i])
        /\ Supplied(s, i) /\ Untouched(s, x, i, k + 1)
        /\ \A m \in i + 1 .. k : ~Forgives(s[m])
  <2>1. (k + 1) - 1 = k
    OBVIOUS
  <2> QED
    BY <2>1 DEF ThereUnlessFailed
<1>2. CASE i = k
  BY <1>1, <1>2
<1>3. CASE i < k
  <2>1. i \in 1 .. k - 1 /\ Untouched(s, x, i, k) /\ ~Touches(s[k], x)
    BY <1>1, <1>3 DEF Untouched
  <2>2. ~Forgives(s[k]) /\ \A m \in i + 1 .. k - 1 : ~Forgives(s[m])
    BY <1>1, <1>3
  <2> QED
    BY <1>1, <2>1, <2>2 DEF ThereUnlessFailed
<1> QED
  BY <1>2, <1>3

LEMMA OneTarget ==
  ASSUME ToolsInv, NEW p \in Runs, NEW x, AtMake(p), File(p, x, 0) = Target(p)
  PROVE  Writes(Now(p), x)
<1>1. Name(p, run[p].item) # 0
  <2>1. run[p].item \in Nat \ {0}
    <3>1. run[p] \in RunState
      BY DEF ToolsInv, TypeOK
    <3> QED
      BY <3>1, ToolsAssumption DEF RunState
  <2> QED
    BY <2>1, NameFacts DEF ToolsInv
<1>2. x = Now(p).file /\ ~Now(p).each
  BY <1>1, FileFacts DEF Target
<1> QED
  BY <1>2 DEF AtMake, Writes

LEMMA UntouchedKept ==
  ASSUME ToolsInv, NEW p \in Runs, Shape(p), NEW x, IsWhole(p, x), ~Touches(Now(p), x)
  PROVE  IsWhole(p, x)'
<1>1. AtMake(p) => File(p, x, 0) # Target(p)
  BY OneTarget DEF Touches
<1>2. Now(p).op = "remove" => File(p, x, 0) # File(p, Now(p).file, 0)
  BY FileFacts DEF Touches
<1> QED
  BY <1>1, <1>2, FileKept, SaidOfFiles

LEMMA ClosedKept ==
  ASSUME ToolsInv, NEW p \in Runs, Shape(p), Trusted(p), Closed(p), run[p].at \in DOMAIN Steps(p),
         Supplied(Steps(p), run[p].at), NEW x, Writes(Now(p), x)
  PROVE  IsWhole(p, x)'
<1>1. Wrote(Target(p), "whole", p, 0) /\ Target(p) = File(p, x, 0)
  BY SupplyFacts DEF Writes, Target, Number
<1>2. File(p, x, 0)' = File(p, x, 0)
  BY SessionKept DEF Shape
<1> QED
  BY <1>1, <1>2 DEF Wrote, IsWhole

(* The step to the next step.                                              *)
LEMMA OnePass ==
  ASSUME ToolsInv, NEW p \in Runs, Shape(p), Kind(p), Trusted(p), run[p].status = "working",
         Passes(run[p], run'[p]), run[p].at \in DOMAIN Steps(p), NEW x \in Names,
         \/ There(Steps(p), x, run[p].at + 1)
         \/ ThereUnlessFailed(Steps(p), x, run[p].at + 1) /\ ~run'[p].failed
  PROVE  IsWhole(p, x)'
<1> DEFINE s == Steps(p)
           k == run[p].at
<1>1. k \in Nat \ {0} /\ k <= Len(s) /\ Now(p) = s[k] /\ TypeOK
  BY StepFacts DEF Now, ToolsInv
<1>2. \/ Closed(p) \/ Failed(p) \/ Skipped(p) \/ Passed(p) \/ Wore(p)
  BY <1>1 DEF Kind, Begins, Halts, Finishes, Opened, Passes, Stays
<1>3. /\ run[p].failed \in BOOLEAN /\ run'[p].failed \in BOOLEAN
  <2>1. run[p] \in RunState /\ run'[p] \in RunState
    BY <1>1 DEF TypeOK, Shape
  <2> QED
    BY <2>1 DEF RunState
<1>4. ASSUME ThereUnlessFailed(s, x, k), ~run[p].failed, ~Now(p).each, ~Rewriting(p, x)
      PROVE  IsWhole(p, x)
  <2>1. ~AtEach(p)
    BY <1>4 DEF AtEach
  <2> QED
    BY <1>4, <2>1 DEF ToolsInv, OneInv, Counted
<1>5. ASSUME There(s, x, k), ~Rewriting(p, x)
      PROVE  IsWhole(p, x)
  BY <1>5 DEF ToolsInv, OneInv, Counted
<1>6. ~Touches(s[k], x) => ~Rewriting(p, x)
  BY <1>1 DEF Touches, Rewriting
<1>7. ASSUME There(s, x, k), ~Touches(s[k], x)
      PROVE  IsWhole(p, x)'
  BY <1>1, <1>5, <1>6, <1>7, UntouchedKept
<1>8. ASSUME ThereUnlessFailed(s, x, k), ~Touches(s[k], x), ~Forgives(s[k]), ~run'[p].failed
      PROVE  IsWhole(p, x)'
  <2>1. ~Now(p).each /\ Now(p).when # "maybe"
        /\ (Now(p).when = "ok" \/ Now(p).op \notin Making \/ Now(p).fails # "next")
    BY <1>1, <1>8 DEF Forgives
  <2>2. ~run[p].failed
    <3>1. CASE Closed(p)
      BY <1>8, <2>1, <3>1 DEF Closed, AtMake, Due
    <3>2. CASE Failed(p)
      BY <1>8, <2>1, <3>2 DEF Failed
    <3>3. CASE Skipped(p) \/ Passed(p) \/ Wore(p)
      BY <1>8, <2>1, <3>3 DEF Skipped, Passed, Wore
    <3> QED
      BY <1>2, <3>1, <3>2, <3>3
  <2> QED
    BY <1>1, <1>4, <1>6, <1>8, <2>1, <2>2, UntouchedKept
<1>9. ASSUME ThereUnlessFailed(s, x, k), Now(p).when = "failed", Now(p).track = "any", ~Now(p).each,
             Skipped(p)
      PROVE  IsWhole(p, x)'
  <2>1. ~run[p].failed
    BY <1>9 DEF Skipped, Due
  <2>2. ~Rewriting(p, x) /\ disk' = disk
    BY <1>9 DEF Skipped, Rewriting
  <2>3. IsWhole(p, x)
    BY <1>4, <1>9, <2>1, <2>2
  <2>4. File(p, x, 0)' = File(p, x, 0)
    BY SessionKept DEF Shape
  <2> QED
    BY <2>2, <2>3, <2>4 DEF IsWhole
<1>10. ASSUME Insists(s[k], x), s[k].when = "any", Supplied(s, k)
       PROVE  IsWhole(p, x)'
  <2>1. Closed(p)
    BY <1>1, <1>2, <1>10 DEF Insists, Writes, Making, Failed, Skipped, Passed, Wore, Due
  <2> QED
    BY <1>1, <1>10, <2>1, ClosedKept DEF Insists
<1>11. ASSUME Insists(s[k], x), s[k].when = "failed", Supplied(s, k), ThereUnlessFailed(s, x, k)
       PROVE  IsWhole(p, x)'
  <2>1. Closed(p) \/ Skipped(p)
    BY <1>1, <1>2, <1>11 DEF Insists, Writes, Making, Failed, Passed, Wore
  <2> QED
    BY <1>1, <1>9, <1>11, <2>1, ClosedKept DEF Insists, Writes
<1>12. ASSUME s[k].op = "abort", s[k].when = "failed", s[k].track = "any", ~s[k].each,
              ThereUnlessFailed(s, x, k)
       PROVE  IsWhole(p, x)'
  <2>1. Skipped(p)
    BY <1>1, <1>2, <1>12 DEF Closed, Failed, AtMake, Making, Passed, Wore
  <2> QED
    BY <1>1, <1>9, <1>12, <2>1
<1>13. ASSUME Writes(s[k], x), s[k].op = "make", s[k].fails = "next", Unconditional(s[k]),
              Supplied(s, k), ~run'[p].failed
       PROVE  IsWhole(p, x)'
  <2>1. Closed(p)
    BY <1>1, <1>2, <1>13 DEF Unconditional, Writes, Making, Failed, Skipped, Passed, Wore, Due
  <2> QED
    BY <1>1, <1>13, <2>1, ClosedKept
<1>14. CASE There(s, x, k + 1)
  BY <1>1, <1>7, <1>10, <1>11, <1>12, <1>14, ThereSplit
<1>15. CASE ThereUnlessFailed(s, x, k + 1) /\ ~run'[p].failed
  BY <1>1, <1>8, <1>13, <1>15, UnlessSplit
<1> QED
  BY <1>14, <1>15

(* A file that the steps so far see to is there, and whole.                *)
LEMMA OneInvStep ==
  ASSUME ToolsInv, NEW p \in Runs, Shape(p), run'[p].slips \/ Kind(p)
  PROVE  OneInv'
<1>1. session' = session /\ Only(p) /\ TypeOK
  BY DEF Shape, ToolsInv
<1> DEFINE Rewriting2(q, x) == run'[q].open /\ Writes(Steps(q)[run'[q].at], x)
           AtEach2(q) == run'[q].at <= Len(Steps(q)) /\ Steps(q)[run'[q].at].each
<1>2. ASSUME NEW q \in Runs, NEW x \in Names, Trusted(q)', Counted(q, x)', ~Rewriting2(q, x),
             \/ There(Steps(q), x, run'[q].at)
             \/ ThereUnlessFailed(Steps(q), x, run'[q].at) /\ ~run'[q].failed /\ ~AtEach2(q)
      PROVE  IsWhole(q, x)'
  <2> DEFINE s == Steps(q)
  <2>1. Undisturbed(q)' /\ ~run'[q].slips
    BY <1>2 DEF Trusted
  <2>2. /\ run'[q].status # "idle"
        /\ run'[q].status = "working" \/ (run'[q].status = "ended" /\ run'[q].exit = 0 /\ x \notin Shared)
    BY <1>2, CountedFacts
  <2>3. CASE q = 1 /\ p = 2 /\ session.how = "then" /\ EndedWell(1) /\ run[1].status = "ended"
    <3>1. run'[1] = run[1] /\ x \notin Shared
      BY <1>1, <2>2, <2>3 DEF Only
    <3>2. Trusted(1) /\ Counted(1, x)
      <4>1. ~run[1].slips
        BY <2>1, <2>3, <3>1
      <4>2. Undisturbed(1) /\ Vouched(1)
        BY <2>3 DEF Undisturbed, Vouched, Chained, Follows
      <4> QED
        BY <2>3, <3>1, <4>1, <4>2 DEF Trusted, Counted
    <3>3. /\ ~Rewriting(1, x)
          /\ \/ There(Steps(1), x, run[1].at)
             \/ ThereUnlessFailed(Steps(1), x, run[1].at) /\ ~run[1].failed /\ ~AtEach(1)
      BY <1>2, <2>3, <3>1 DEF Rewriting, AtEach, Now
    <3>4. IsWhole(1, x)
      BY <2>3, <3>2, <3>3 DEF ToolsInv, OneInv
    <3> QED
      BY <2>3, <3>1, <3>4, FirstKept
  <2>4. CASE q = p
    <3> DEFINE k == run[p].at
               k2 == run'[p].at
    <3>1. Kind(p) /\ ~run[p].slips
      BY <2>1, <2>4 DEF Kind
    <3>2. DOMAIN s = 1 .. Len(s) /\ Len(s) \in Nat /\ k \in 1 .. Len(s) + 1 /\ k2 \in 1 .. Len(s) + 1
      BY <1>1, <2>4, StepFacts, ControlOfStep DEF ToolsInv, ControlInv, Control
    <3>3. run[p].status = "working"
      <4>1. CASE run[p].status = "idle"
        <5>1. k2 = 1
          BY <4>1, <2>2, <2>4 DEF Shape, Begins, Moves, Halts, Opened, Turns, Finishes, AtMake, ToolsInv, ControlInv
        <5>2. 1 .. k2 - 1 = {}
          BY <5>1
        <5> QED
          BY <1>2, <2>4, <5>2 DEF There, ThereUnlessFailed
      <4> QED
        BY <4>1, StatusStep
    <3>4. Trusted(p) /\ Counted(p, x)
      BY <1>2, <2>4, <3>1, <3>3, TrustedBefore DEF Counted
    <3>5. CASE Passes(run[p], run'[p])
      <4>1. k \in DOMAIN s /\ k2 = k + 1
        BY <3>2, <3>5 DEF Passes
      <4> QED
        BY <1>2, <2>4, <3>1, <3>3, <3>4, <3>5, <4>1, OnePass
    <3>6. CASE ~Passes(run[p], run'[p])
      <4>1. \/ Finishes(p) /\ run'[p].failed = run[p].failed
            \/ Opened(p) /\ run'[p].failed = run[p].failed
            \/ (Closed(p) \/ Failed(p)) /\ Stays(run[p], run'[p]) /\ Now(p).each
        BY <2>2, <2>4, <3>1, <3>3, <3>6 DEF Kind, Begins, Halts, Closed, Failed, Skipped, Passed, Wore
      <4>2. k2 = k
        BY <4>1 DEF Finishes, Opened, Stays
      <4>3. AtEach2(p) <=> AtEach(p)
        BY <4>2 DEF AtEach, Now
      <4>4. ~Touches(Now(p), x) \/ (Finishes(p) /\ disk' = disk)
        <5>1. CASE Opened(p)
          <6>1. run'[p].open /\ Now(p).op \in Making /\ Now(p) = s[k2]
            BY <2>4, <4>2, <5>1 DEF Opened, AtMake, Now
          <6>2. ~Writes(Now(p), x) /\ Now(p).op # "remove"
            BY <1>2, <2>4, <6>1 DEF Making
          <6> QED
            BY <6>2 DEF Touches
        <5>2. CASE (Closed(p) \/ Failed(p)) /\ Now(p).each
          BY <5>2 DEF Closed, Failed, AtMake, Making, Touches, Writes
        <5>3. CASE Finishes(p)
          BY <5>3 DEF Finishes
        <5> QED
          BY <4>1, <5>1, <5>2, <5>3
      <4>5. ~Rewriting(p, x)
        <5>1. CASE Finishes(p)
          BY <3>2, <5>1 DEF Rewriting, Finishes, ToolsInv, ControlInv
        <5>2. CASE ~Touches(Now(p), x)
          BY <5>2 DEF Rewriting, Touches
        <5> QED
          BY <4>4, <5>1, <5>2
      <4>6. \/ There(s, x, k)
            \/ ThereUnlessFailed(s, x, k) /\ ~run[p].failed /\ ~AtEach(p)
        <5>1. CASE run'[p].failed = run[p].failed
          BY <1>2, <2>4, <4>2, <4>3, <5>1
        <5>2. CASE Now(p).each /\ (Closed(p) \/ Failed(p))
          <6>1. AtEach(p)
            BY <5>2 DEF AtEach, Closed, Failed, AtMake
          <6> QED
            BY <1>2, <2>4, <4>2, <4>3, <6>1
        <5> QED
          BY <4>1, <5>1, <5>2
      <4>7. IsWhole(p, x)
        BY <2>4, <3>4, <4>5, <4>6 DEF ToolsInv, OneInv
      <4>8. CASE ~Touches(Now(p), x)
        BY <2>4, <4>7, <4>8, UntouchedKept
      <4>9. CASE disk' = disk
        <5>1. File(p, x, 0)' = File(p, x, 0)
          BY <1>1, SessionKept
        <5> QED
          BY <2>4, <4>7, <4>9, <5>1 DEF IsWhole
      <4> QED
        BY <4>4, <4>8, <4>9
    <3> QED
      BY <3>5, <3>6
  <2> QED
    BY <2>1, <2>2, <2>3, <2>4, Alone
<1>3. \A q : Steps(q)' = Steps(q)
  BY <1>1, SessionKept
<1>4. ASSUME NEW q \in Runs, NEW x \in Names
      PROVE  (Rewriting(q, x)' <=> Rewriting2(q, x)) /\ (AtEach(q)' <=> AtEach2(q))
  BY <1>3 DEF Rewriting, AtEach, Now
<1> HIDE DEF Rewriting2, AtEach2
<1>5. ASSUME NEW q \in Runs, NEW x \in Names
      PROVE  /\ Trusted(q)' /\ Counted(q, x)' /\ ~Rewriting(q, x)'
             /\ \/ There(Steps(q), x, run'[q].at)
                \/ ThereUnlessFailed(Steps(q), x, run'[q].at) /\ ~run'[q].failed /\ ~AtEach(q)'
             => IsWhole(q, x)'
  BY <1>2, <1>4
<1> QED
  BY <1>3, <1>5 DEF OneInv

(* What is made besides is whole but while it is made, or about to be made *)
(* good.                                                                   *)
LEMMA BesideOwn ==
  ASSUME ToolsInv, NEW p \in Runs, Shape(p), Kind(p), NEW x \in Names, MakesBeside(Steps(p), x),
         Trusted(p), run[p].status = "working", ~run'[p].missed,
         run'[p].status = "working" \/ run'[p].exit = 0, Counted(p, x),
         ~(run'[p].open /\ Writes(Steps(p)[run'[p].at], x)),
         ~(run'[p].failed /\ Amends(Steps(p), run'[p].at, x))
  PROVE  NotTorn(p, x)'
<1> DEFINE s == Steps(p)
           k == run[p].at
<1>1. /\ TypeOK /\ session' = session /\ ~run[p].missed /\ Now(p) = s[k] /\ k \in Nat
      /\ DOMAIN s = 1 .. Len(s) /\ Len(s) \in Nat /\ k \in 1 .. Len(s) + 1
  BY StepFacts DEF ToolsInv, Shape, Kind, Now, ControlInv
<1>2. ~Begins(p) /\ ~Halts(p)
  BY StatusStep DEF Begins, Halts, ToolsInv, ControlInv
<1>3. File(p, x, 0)' = File(p, x, 0)
  BY <1>1, SessionKept
<1>4. ASSUME AtMake(p), Writes(Now(p), x)
      PROVE  /\ k \in DOMAIN s /\ Now(p).op = "make" /\ ~Now(p).each /\ Now(p).needs = ""
             /\ Now(p).fails \in {"stop", "go"} \/ (Now(p).fails = "next" /\ Amends(s, k + 1, x))
  <2>1. k \in DOMAIN s /\ s[k].op \in Making /\ s[k].file = x
    BY <1>1, <1>4 DEF AtMake, Writes
  <2> QED
    BY <1>1, <2>1 DEF MakesBeside
<1>5. ASSUME Writes(Now(p), x), Opened(p)
      PROVE  FALSE
  BY <1>1, <1>5 DEF Opened, Stays
<1>6. CASE Rewriting(p, x)
  <2>1. run[p].open /\ Writes(Now(p), x) /\ k <= Len(s)
    BY <1>6 DEF Rewriting, ToolsInv, ControlInv
  <2>2. Closed(p) \/ Failed(p)
    <3>1. ~Passed(p) /\ ~Finishes(p)
      BY <1>1, <2>1 DEF Passed, Finishes, Writes
    <3>2. ~Skipped(p) /\ ~Wore(p) /\ ~Opened(p)
      BY <2>1 DEF Skipped, Wore, Opened
    <3> QED
      BY <1>2, <3>1, <3>2 DEF Kind
  <2>3. CASE Closed(p)
    <3>1. Supplied(s, k) /\ k \in DOMAIN s
      BY <1>1, <1>4, <2>1, <2>3 DEF Closed, Supplied
    <3>2. IsWhole(p, x)'
      BY <2>1, <2>3, <3>1, ClosedKept
    <3> QED
      BY <1>3, <3>2 DEF IsWhole, NotTorn
  <2>4. CASE Failed(p)
    BY <1>4, <2>1, <2>4 DEF Failed, Passes
  <2> QED
    BY <2>2, <2>3, <2>4
<1>7. CASE ~Rewriting(p, x) /\ run[p].failed /\ Amends(s, k, x)
  <2>1. ~run[p].open /\ Writes(Now(p), x) /\ Now(p).op = "make" /\ Due(p) /\ Now(p).when # "maybe"
    BY <1>1, <1>7 DEF Rewriting, Amends, Due
  <2>2. k <= Len(s)
    BY <1>1, <1>7 DEF Amends
  <2>3. ~Passed(p) /\ ~Finishes(p) /\ ~Skipped(p)
    BY <1>1, <2>1, <2>2 DEF Passed, Finishes, Skipped, Making
  <2>4. ~Closed(p) /\ ~Failed(p) /\ ~Wore(p)
    BY <2>1 DEF Closed, Failed, Wore, Writes
  <2> QED
    BY <1>2, <1>5, <2>1, <2>3, <2>4 DEF Kind
<1>8. CASE ~Rewriting(p, x) /\ ~(run[p].failed /\ Amends(s, k, x))
  <2>1. NotTorn(p, x)
    BY <1>1, <1>8 DEF ToolsInv, BesideInv
  <2>2. AtMake(p) => disk' = disk \/ File(p, x, 0) # Target(p)
    <3> SUFFICES ASSUME AtMake(p), File(p, x, 0) = Target(p) PROVE disk' = disk
      OBVIOUS
    <3>1. Writes(Now(p), x)
      BY OneTarget
    <3>2. ~Opened(p) /\ ~Closed(p)
      BY <1>5, <1>8, <3>1 DEF Rewriting, Closed
    <3> QED
      BY <1>2, <3>2 DEF Kind, Failed, Skipped, Passed, Wore, Finishes, AtMake
  <2>3. CASE Now(p).op = "remove" /\ File(p, x, 0) = File(p, Now(p).file, 0) /\ Passed(p) /\ disk' # disk
    <3>1. File(p, x, 0) \notin DOMAIN disk'
      BY <2>3 DEF Passed
    <3> QED
      BY <1>3, <3>1 DEF NotTorn
  <2>4. CASE Now(p).op = "remove" /\ (~Passed(p) \/ disk' = disk)
    <3>1. disk' = disk
      BY <1>2, <2>4 DEF Kind, Closed, Failed, Skipped, Wore, Finishes, Opened, AtMake, Making
    <3> QED
      BY <1>3, <2>1, <3>1 DEF NotTorn
  <2>5. CASE Now(p).op = "remove" => File(p, x, 0) # File(p, Now(p).file, 0)
    BY <2>1, <2>2, <2>5, FileKept, SaidOfFiles
  <2> QED
    BY <2>3, <2>4, <2>5
<1> QED
  BY <1>6, <1>7, <1>8

LEMMA BesideInvStep ==
  ASSUME ToolsInv, NEW p \in Runs, Shape(p), run'[p].slips \/ Kind(p)
  PROVE  BesideInv'
<1>1. session' = session /\ Only(p) /\ TypeOK
  BY DEF Shape, ToolsInv
<1> DEFINE Rewriting2(q, x) == run'[q].open /\ Writes(Steps(q)[run'[q].at], x)
           Amending2(q, x) == run'[q].failed /\ Amends(Steps(q), run'[q].at, x)
<1>2. ASSUME NEW q \in Runs, NEW x \in Names, MakesBeside(Steps(q), x), Trusted(q)', ~run'[q].missed,
             Counted(q, x)', ~Rewriting2(q, x), ~Amending2(q, x)
      PROVE  NotTorn(q, x)'
  <2>1. Undisturbed(q)' /\ ~run'[q].slips
    BY <1>2 DEF Trusted
  <2>2. /\ run'[q].status # "idle"
        /\ run'[q].status = "working" \/ (run'[q].status = "ended" /\ run'[q].exit = 0 /\ x \notin Shared)
    BY <1>2, CountedFacts
  <2>3. CASE q = 1 /\ p = 2 /\ session.how = "then" /\ EndedWell(1) /\ run[1].status = "ended"
    <3>1. run'[1] = run[1] /\ x \notin Shared
      BY <1>1, <2>2, <2>3 DEF Only
    <3>2. Trusted(1) /\ Counted(1, x)
      <4>1. ~run[1].slips
        BY <2>1, <2>3, <3>1
      <4>2. Undisturbed(1) /\ Vouched(1)
        BY <2>3 DEF Undisturbed, Vouched, Chained, Follows
      <4> QED
        BY <2>3, <3>1, <4>1, <4>2 DEF Trusted, Counted
    <3>3. ~run[1].missed /\ ~Rewriting(1, x) /\ ~(run[1].failed /\ Amends(Steps(1), run[1].at, x))
      BY <1>2, <2>3, <3>1 DEF Rewriting, Now
    <3>4. NotTorn(1, x)
      BY <1>2, <2>3, <3>2, <3>3 DEF ToolsInv, BesideInv
    <3> QED
      BY <2>3, <3>1, <3>4, FirstKept
  <2>4. CASE q = p
    <3>1. Kind(p) /\ ~run[p].slips
      BY <2>1, <2>4 DEF Kind
    <3>2. CASE run[p].status = "idle"
      <4>1. disk' = disk
        BY <3>2 DEF Shape, Begins, Moves, Halts, Opened, Turns, Finishes, AtMake
      <4>2. File(p, x, 0)' = File(p, x, 0)
        BY <1>1, SessionKept
      <4>3. \A f \in DOMAIN disk : disk[f].of # p
        BY <3>2 DEF ToolsInv, DiskInv
      <4> QED
        BY <2>4, <4>1, <4>2, <4>3 DEF NotTorn
    <3>3. CASE run[p].status = "working"
      <4>1. Trusted(p) /\ Counted(p, x)
        BY <1>2, <2>4, <3>1, <3>3, TrustedBefore DEF Counted
      <4> QED
        BY <1>2, <2>2, <2>4, <3>1, <3>3, <4>1, BesideOwn
    <3> QED
      BY <3>2, <3>3, StatusStep
  <2> QED
    BY <2>1, <2>2, <2>3, <2>4, Alone
<1>3. \A q : Steps(q)' = Steps(q)
  BY <1>1, SessionKept
<1>4. ASSUME NEW q \in Runs, NEW x \in Names
      PROVE  Rewriting(q, x)' <=> Rewriting2(q, x)
  BY <1>3 DEF Rewriting, Now
<1> HIDE DEF Rewriting2
<1>5. ASSUME NEW q \in Runs, NEW x \in Names
      PROVE  /\ MakesBeside(Steps(q), x) /\ Trusted(q)' /\ ~run'[q].missed /\ Counted(q, x)'
             /\ ~Rewriting(q, x)' /\ ~Amending2(q, x)
             => NotTorn(q, x)'
  BY <1>2, <1>4
<1> QED
  BY <1>3, <1>5 DEF BesideInv

-----------------------------------------------------------------------------
(* The invariant holds at the start, and when nothing happens.             *)
LEMMA InitTools ==
  ASSUME Init
  PROVE  ToolsInv
<1>1. /\ session \in Sessions /\ kills = 0 /\ disk = <<>>
      /\ \A p \in Runs :
           /\ run[p].status = "idle" /\ run[p].at = 1 /\ run[p].item = 1 /\ ~run[p].open
           /\ ~run[p].failed /\ ~run[p].noted /\ run[p].n = 0 /\ run[p].got = 0 /\ run[p].told = 0
           /\ ~run[p].slips /\ ~run[p].missed /\ ~run[p].alone /\ run[p].exit = 2
  BY DEF Init
<1>2. DOMAIN disk = {}
  BY <1>1
<1>3. TypeOK
  <2>1. run \in [Runs -> RunState]
    <3>1. 1 \in 1 .. MaxItems + 1 /\ 0 \in 0 .. MaxItems
      BY ToolsAssumption
    <3> QED
      BY <3>1 DEF Init, RunState
  <2> QED
    BY <1>1, <1>2, <2>1, ToolsAssumption DEF TypeOK
<1>4. \A p \in Runs : DOMAIN Steps(p) = 1 .. Len(Steps(p)) /\ Len(Steps(p)) \in Nat
  BY <1>3, StepFacts
<1>5. ControlInv
  <2>1. \A p \in Runs : ~EndedWell(p)
    BY <1>1 DEF EndedWell
  <2> QED
    BY <1>1, <1>4, <2>1 DEF ControlInv
<1>6. ListInv
  BY <1>1 DEF ListInv
<1>7. DiskInv
  BY <1>2, FS_EmptySet DEF DiskInv
<1>8. ExistInv
  <2>1. ASSUME NEW p \in Runs, NEW j \in DOMAIN Steps(p)
        PROVE  1 .. Reached(p, j) = {}
    <3>1. j \in Nat \ {0} /\ run[p].at = 1 /\ run[p].item = 1 /\ run[p].n = 0
      BY <1>1, <1>4
    <3>2. Reached(p, j) = 0
      BY <3>1 DEF Reached
    <3> QED
      BY <3>2
  <2> QED
    BY <1>1, <2>1 DEF ExistInv
<1>9. TornInv
  BY <1>1 DEF TornInv
<1>10. EachInv
  <2>1. \A p \in Runs : \A x : ~Counted(p, x)
    BY <1>1 DEF Counted, EndedWell
  <2> QED
    BY <2>1 DEF EachInv
<1>11. OneInv
  BY <1>1 DEF OneInv, Counted, EndedWell
<1>12. TallyInv
  BY <1>1 DEF TallyInv
<1>13. ChainInv
  BY <1>1, RunsFacts DEF ChainInv
<1>14. BesideInv
  BY <1>1 DEF BesideInv, Counted, EndedWell
<1> QED
  BY <1>3, <1>5, <1>6, <1>7, <1>8, <1>9, <1>10, <1>11, <1>12, <1>13, <1>14 DEF ToolsInv

LEMMA StutterTools ==
  ASSUME ToolsInv, UNCHANGED vars
  PROVE  ToolsInv'
<1>1. session' = session /\ run' = run /\ disk' = disk /\ kills' = kills
  BY DEF vars
<1>2. \A p : Steps(p)' = Steps(p) /\ Script(p)' = Script(p) /\ Command(p)' = Command(p)
             /\ Out(p)' = Out(p) /\ Follows(p)' = Follows(p) /\ Chained(p)' = Chained(p)
             /\ TakesFrames(p)' = TakesFrames(p) /\ Strays(p)' = Strays(p)
             /\ (\A i : Name(p, i)' = Name(p, i)) /\ (\A x, i : File(p, x, i)' = File(p, x, i))
  BY <1>1, SessionKept
<1>13. \A p, x, i : File(p, x, Name(p, i))' = File(p, x, Name(p, i))
  BY <1>1, <1>2 DEF File, Name, Out, Command
<1>14. \A p : Now(p)' = Now(p) /\ Target(p)' = Target(p) /\ Number(p)' = Number(p)
  <2>1. \A p : Now(p)' = Now(p)
    BY <1>1, <1>2 DEF Now
  <2>2. \A p : Number(p)' = Number(p)
    BY <1>1, <2>1 DEF Number
  <2>3. ASSUME NEW p
        PROVE  Target(p)' = Target(p)
    <3> DEFINE i == IF Now(p).each THEN Name(p, run[p].item) ELSE 0
    <3>1. i' = i
      BY <1>1, <1>2, <2>1
    <3>2. Target(p) = File(p, Now(p).file, i) /\ Target(p)' = File(p, Now(p).file, i)'
      BY DEF Target
    <3>3. File(p, Now(p).file, i)' = File(p, Now(p).file, i)
      <4>1. Now(p)'.file = Now(p).file
        BY <2>1
      <4> HIDE DEF i
      <4> QED
        BY <1>1, <1>2, <3>1, <4>1 DEF File
    <3> QED
      BY <3>2, <3>3
  <2> QED
    BY <2>1, <2>2, <2>3
<1>3. TypeOK'
  BY <1>1, <1>2 DEF ToolsInv, TypeOK
<1>4. ControlInv'
  BY <1>1, <1>2 DEF ToolsInv, ControlInv, EndedWell, Succeeds, Now, Items
<1>5. ListInv'
  BY <1>1, <1>2 DEF ToolsInv, ListInv
<1>6. DiskInv'
  <2>1. \A q : Steps(q)' = Steps(q) /\ \A x, i : File(q, x, i)' = File(q, x, i)
    BY <1>2
  <2>2. ASSUME NEW f, NEW q
        PROVE  MadeBy(f, q)' <=> MadeBy(f, q)
    BY <1>1, <1>13, <2>1 DEF MadeBy
  <2> QED
    BY <1>1, <2>2 DEF ToolsInv, DiskInv
<1>7. ExistInv'
  <2>1. ASSUME NEW p \in Runs, NEW j \in DOMAIN Steps(p), EachStep(Steps(p), j), NEW i \in 1 .. Reached(p, j)'
        PROVE  File(p, Steps(p)[j].file, Name(p, i)) \in DOMAIN disk
    BY <1>1, <2>1 DEF ToolsInv, ExistInv, Reached
  <2>2. ASSUME NEW p, NEW j, NEW i
        PROVE  File(p, Steps(p)[j].file, Name(p, i))' = File(p, Steps(p)[j].file, Name(p, i))
    BY <1>1, <1>2, <1>13 DEF File, Name, Out, Command
  <2>3. ASSUME NEW p \in Runs, NEW j \in DOMAIN Steps(p), EachStep(Steps(p), j), NEW i \in 1 .. Reached(p, j)'
        PROVE  File(p, Steps(p)[j].file, Name(p, i))' \in DOMAIN disk'
    BY <1>1, <2>1, <2>2, <2>3
  <2>4. ASSUME NEW p \in Runs, run'[p].open, Now(p)'.each
        PROVE  Target(p)' \in DOMAIN disk'
    BY <1>1, <1>14, <2>4 DEF ToolsInv, ExistInv
  <2> QED
    BY <1>2, <2>3, <2>4 DEF ExistInv
<1>8. TornInv'
  BY <1>1, <1>2, <1>14 DEF ToolsInv, TornInv, Undisturbed
<1>15. ASSUME NEW p \in Runs
       PROVE  Trusted(p)' <=> Trusted(p)
  BY <1>1, <1>2 DEF Trusted, Undisturbed, Vouched
<1>9. EachInv'
  <2>1. ASSUME NEW p \in Runs, NEW j \in DOMAIN Steps(p)
        PROVE  /\ Counted(p, Steps(p)[j].file)' <=> Counted(p, Steps(p)[j].file)
               /\ Reached(p, j)' = Reached(p, j)
               /\ \A i : HoldsItem(p, Steps(p)[j].file, i)' <=> HoldsItem(p, Steps(p)[j].file, i)
               /\ \A i : Reopened(p, j, i)' <=> Reopened(p, j, i)
    <3>1. /\ Counted(p, Steps(p)[j].file)' <=> Counted(p, Steps(p)[j].file)
          /\ Reached(p, j)' = Reached(p, j)
      BY <1>1, <1>2 DEF Counted, EndedWell, Reached
    <3>2. ASSUME NEW i
          PROVE  HoldsItem(p, Steps(p)[j].file, i)' <=> HoldsItem(p, Steps(p)[j].file, i)
      <4>1. Namesakes(p, i)' = Namesakes(p, i)
        BY <1>1, <1>2 DEF Namesakes
      <4>2. File(p, Steps(p)[j].file, Name(p, i))' = File(p, Steps(p)[j].file, Name(p, i))
        BY <1>1, <1>2, <1>13 DEF File, Name, Out, Command
      <4> QED
        BY <1>1, <4>1, <4>2 DEF HoldsItem
    <3>3. ASSUME NEW i
          PROVE  Reopened(p, j, i)' <=> Reopened(p, j, i)
      BY <1>1, <1>2 DEF Reopened, Name
    <3> QED
      BY <3>1, <3>2, <3>3
  <2>2. ASSUME NEW p \in Runs, NEW j \in DOMAIN Steps(p)
        PROVE  /\ Trusted(p)' /\ ~run'[p].noted /\ Counted(p, Steps(p)[j].file)'
               /\ EachStep(Steps(p), j) /\ Steps(p)[j].needs = "" /\ Final(Steps(p), j)
               => \A i \in 1 .. Reached(p, j)' :
                    ~Reopened(p, j, i)' => HoldsItem(p, Steps(p)[j].file, i)'
    BY <1>1, <1>15, <2>1 DEF ToolsInv, EachInv
  <2> QED
    BY <1>2, <2>2 DEF EachInv
<1>16. ASSUME NEW p \in Runs, NEW x
       PROVE  /\ Counted(p, x)' <=> Counted(p, x)
              /\ Rewriting(p, x)' <=> Rewriting(p, x)
              /\ AtEach(p)' <=> AtEach(p)
              /\ IsWhole(p, x)' <=> IsWhole(p, x)
              /\ NotTorn(p, x)' <=> NotTorn(p, x)
  <2>1. File(p, x, 0)' = File(p, x, 0)
    BY <1>2
  <2> QED
    BY <1>1, <1>2, <1>14, <2>1 DEF Counted, EndedWell, Rewriting, AtEach, IsWhole, NotTorn
<1>10. OneInv'
  <2>1. ASSUME NEW p \in Runs, NEW x \in Names
        PROVE  /\ Trusted(p)' /\ Counted(p, x)' /\ ~Rewriting(p, x)'
               /\ \/ There(Steps(p), x, run[p].at)
                  \/ ThereUnlessFailed(Steps(p), x, run[p].at) /\ ~run[p].failed /\ ~AtEach(p)'
               => IsWhole(p, x)'
    BY <1>15, <1>16 DEF ToolsInv, OneInv
  <2> QED
    BY <1>1, <1>2, <2>1 DEF OneInv
<1>17. BesideInv'
  <2>1. ASSUME NEW p \in Runs, NEW x \in Names
        PROVE  /\ MakesBeside(Steps(p), x) /\ Trusted(p)' /\ ~run[p].missed /\ Counted(p, x)'
               /\ ~Rewriting(p, x)' /\ ~(run[p].failed /\ Amends(Steps(p), run[p].at, x))
               => NotTorn(p, x)'
    BY <1>15, <1>16 DEF ToolsInv, BesideInv
  <2> QED
    BY <1>1, <1>2, <2>1 DEF BesideInv
<1>11. TallyInv'
  BY <1>1, <1>2 DEF ToolsInv, TallyInv
<1>12. ChainInv'
  BY <1>1, <1>2 DEF ToolsInv, ChainInv
<1> QED
  BY <1>3, <1>4, <1>5, <1>6, <1>7, <1>8, <1>9, <1>10, <1>11, <1>12, <1>17 DEF ToolsInv

(* Every step preserves the invariant.                                     *)
LEMMA NextTools ==
  ASSUME ToolsInv, [Next]_vars
  PROVE  ToolsInv'
<1>1. CASE UNCHANGED vars
  BY <1>1, StutterTools
<1>2. CASE Next
  <2>1. PICK p \in Runs : Parse(p) \/ Work(p) \/ Kill(p)
    BY <1>2 DEF Next
  <2>2. Shape(p)
    BY <2>1, StepShape
  <2>3. run'[p].slips \/ Kind(p)
    BY <2>1, StepKind
  <2>4. TypeOK' /\ ControlInv' /\ ListInv' /\ DiskInv' /\ ExistInv'
    BY <2>2, TypeStep, ControlStep, ListStep, DiskStepKeeps, ExistStep
  <2>5. TornInv' /\ TallyInv' /\ ChainInv'
    BY <2>2, TornStep, TallyStep, ChainStep
  <2>6. EachInv' /\ OneInv' /\ BesideInv'
    BY <2>2, <2>3, EachInvStep, OneInvStep, BesideInvStep
  <2> QED
    BY <2>4, <2>5, <2>6 DEF ToolsInv
<1> QED
  BY <1>1, <1>2

(* However the steps of the two runs, kills included, are interleaved: the *)
(* commands' control flow, the files on disk and the counts the commands   *)
(* keep are related as ToolsInv says.                                      *)
THEOREM ToolsInvariant == Spec => []ToolsInv
<1>1. Init => ToolsInv
  BY InitTools
<1>2. ToolsInv /\ [Next]_vars => ToolsInv'
  BY NextTools
<1> QED
  BY <1>1, <1>2, PTL DEF Spec

(* The state of a run and the files are of their types: a run at work is at*)
(* a step of its command's script or just behind the last.                 *)
THEOREM ToolsTyped == Spec => []TypeOK
<1>1. ToolsInv => TypeOK
  BY DEF ToolsInv
<1> QED
  BY <1>1, ToolsInvariant, PTL

(* The products of a command are among the files the invariant speaks of.  *)
LEMMA WholeFollows == ToolsInv => ZeroMeansWhole
<1> SUFFICES ASSUME ToolsInv, NEW p \in Runs, EndedWell(p), ~run[p].slips, Undisturbed(p), Vouched(p)
             PROVE  /\ \A x \in PerItem(Command(p)) : \A i \in 1 .. run[p].n : HoldsItem(p, x, i)
                    /\ \A x \in Single(Command(p))  : IsWhole(p, x)
                    /\ \A x \in Besides(Command(p)) : ~run[p].missed => NotTorn(p, x)
  BY DEF ZeroMeansWhole
<1>1. Trusted(p)
  BY DEF Trusted
<1>2. \A x \in PerItem(Command(p)) : \A i \in 1 .. run[p].n : HoldsItem(p, x, i)
  BY <1>1, PerItemWhole
<1>3. \A x \in Single(Command(p)) : IsWhole(p, x)
  BY <1>1, SingleWhole
<1>4. ASSUME NEW x \in Besides(Command(p)), ~run[p].missed
      PROVE  NotTorn(p, x)
  <2>1. x \notin Shared /\ MakesBeside(Steps(p), x)
    BY ScriptFacts DEF ToolsInv, Fits, Steps
  <2>2. x \in Names
    BY DEF Besides, Names
  <2>3. Counted(p, x) /\ ~Rewriting(p, x)
    BY <2>1, EndedFacts DEF Counted, Rewriting
  <2>4. ~Amends(Steps(p), run[p].at, x)
    BY EndedFacts DEF Amends
  <2> QED
    BY <1>1, <1>4, <2>1, <2>2, <2>3, <2>4 DEF ToolsInv, BesideInv
<1> QED
  BY <1>2, <1>3, <1>4

(* A command for which main() returns 0 has made all that it is for, whole *)
(* and from its own input, whatever an earlier run, killed or not, left in *)
(* its directory; so has a chain of two commands; and what a command made  *)
(* besides, it made whole.  Excepted are what a stream lost, what another  *)
(* run wrote there at the time, the sound or tone of an ffmpeg that failed *)
(* unseen, and, of several items the user gave one name, all but the last: *)
(* their one file is that of one of them.                                  *)
THEOREM ZeroIsWhole == Spec => []ZeroMeansWhole
BY ToolsInvariant, WholeFollows, PTL

(* The number of frames a command prints (frames_transcoded,               *)
(* frames_processed and their like) is that of the frames it was given; or *)
(* more, never more than an earlier run into the same directory listed, if *)
(* it counts the files there; or, of lut, the images of all the kinds that *)
(* the user keeps in one directory.                                        *)
THEOREM TallyHasReason == Spec => []TallyIsExplained
<1>1. ToolsInv => TallyIsExplained
  BY DEF ToolsInv, TallyInv, TallyIsExplained
<1> QED
  BY <1>1, ToolsInvariant, PTL

(* The frames listed by the second run of a chain are those of the first,  *)
(* unless it is watermark and they are of a kind it does not read.         *)
LEMMA ChainFollows == ToolsInv => ChainKeepsFrames
<1> DEFINE c == session.second
           s == Steps(2)
           n == run[2].n
           kept == ImagesOf(session.first) \in Takes(c)
<1> SUFFICES ASSUME ToolsInv, EndedWell(2), TakesFrames(2), session.first \in Frames \ {"mxf_extract"}
             PROVE  n = run[1].n \/ (c = "watermark" /\ ~kept /\ n = 0)
  BY DEF ChainKeepsFrames
<1>1. /\ Command(2) = c /\ Takes(c) # {} /\ 2 \in Runs /\ TypeOK
      /\ Fits(c, Script(2)) /\ run[2].status = "ended"
      /\ run[2].at = Len(s) + 1 /\ Len(s) \in Nat /\ DOMAIN s = 1 .. Len(s)
  <2>1. Command(2) = c /\ 2 \in Runs /\ TypeOK
    BY RunsFacts DEF Command, ToolsInv
  <2> QED
    BY <2>1, ScriptFacts, EndedFacts DEF TakesFrames
<1>2. ListsFrames(s) /\ (c # "watermark" => WantsFrames(Script(2)))
  BY <1>1 DEF Fits, Steps
<1>3. PICK l \in DOMAIN s : s[l].op = "list" /\ Unconditional(s[l])
  BY <1>2 DEF ListsFrames
<1>4. n = (IF kept THEN run[1].n ELSE 0) /\ (n = 0 => s[l].fails # "stop")
  <2>1. run[2].at > l
    BY <1>1, <1>3
  <2> QED
    BY <1>1, <1>3, <2>1 DEF ToolsInv, ChainInv
<1>5. n = 0 => c = "watermark"
  <2> SUFFICES ASSUME n = 0, c # "watermark" PROVE FALSE
    OBVIOUS
  <2>1. AllEach(s) /\ Script(2).some /\ Script(2).exit # "always"
    BY <1>2, <1>3, <1>4 DEF WantsFrames, Steps
  <2>2. run[2].got = 0
    BY <1>1, <2>1 DEF ToolsInv, ControlInv
  <2> QED
    BY <1>1, <2>1, <2>2, EndedFacts
<1> QED
  BY <1>4, <1>5

(* Of the frames a command made for the next one to work on, none is lost: *)
(* if the next ends with 0 it has listed as many as the first did, be they *)
(* of a kind it reads or not; only watermark, given frames of another      *)
(* kind, ends with 0 having listed none.                                   *)
THEOREM ChainLosesNoFrame == Spec => []ChainKeepsFrames
BY ToolsInvariant, ChainFollows, PTL
=============================================================================

-------------------------- MODULE ConfigReloadProofs --------------------------
(***************************************************************************)
(* Theorems about ConfigReload, for any number of workers, any texts and   *)
(* any relation of which pairs resolve.                                    *)
(***************************************************************************)
EXTENDS ConfigReload, TLAPS

USE ConfigReloadAssumption

\* The watch runs only in a daemon that is up.
WatchIsUp == watch.at # "off" => proc = "up"

\* Stamps only grow, and each thread has those of its time: main() read the
\* files before the watch took its stamps.
InTime ==
  \A f \in Files :
    /\ read[f] <= stamp[f]
    /\ watch.at \in {"sleep", "settle", "read"} =>
         read[f] <= watch.seen[f] /\ watch.seen[f] <= stamp[f]

\* The watch acts on an edit that main() has not read.
Moved == watch.at \in {"settle", "read"} => \E f \in Files : read[f] < stamp[f]

\* A save under way has validated its draft with the file that is still there,
\* and has replaced nothing but its own.
Single ==
  orderly => \A w \in Workers : put[w].at # "idle" =>
               \A v \in Workers \ {w} : put[v].at = "idle"

Promised ==
  orderly => \A w \in Workers : put[w].at # "idle" =>
    /\ Resolves([text EXCEPT ![put[w].file] = put[w].draft])
    /\ put[w].at = "open" => Resolves(text)
    /\ put[w].at = "write" => text[put[w].file] = Empty

HasDraft == \A w \in Workers : put[w].at # "idle" => put[w].draft \in Texts

IInv ==
  /\ TypeOK /\ WatchIsUp /\ InTime /\ Moved
  /\ Single /\ Promised /\ HasDraft /\ OrderlySaves

WatchPart == WatchIsUp /\ InTime /\ Moved
SavePart == Single /\ Promised /\ HasDraft /\ OrderlySaves

LEMMA InitOK == Init => IInv
<1> SUFFICES ASSUME Init  PROVE IInv
  OBVIOUS
<1>1. watch = NoWatch /\ NoWatch.at = "off" /\ \A w \in Workers : put[w] = NoPut
  BY DEF Init, NoWatch
<1>2. TypeOK
  <2>1. NoWatch \in [at : {"off", "first", "sleep", "settle", "read"}, seen : [Files -> Nat],
                     got : [Files -> Contents \cup {None}]]
    BY DEF NoWatch, Nothing
  <2>2. NoPut \in [at : {"idle", "open", "write"}, file : Files, draft : Texts \cup {None}]
    BY DEF NoPut, Files
  <2>3. orderly \in BOOLEAN /\ overlooked \in BOOLEAN
    BY DEF Init
  <2>4. /\ text \in [Files -> Contents] /\ stamp \in [Files -> Nat] /\ proc = "starting"
        /\ plan \in [Files -> Contents \cup {None}] /\ read \in [Files -> Nat] /\ edits \in 0 .. MaxEdits
    BY DEF Init, Nothing, Contents
  <2>5. QED
    BY <1>1, <2>1, <2>2, <2>3, <2>4 DEF TypeOK, Init
<1>3. WatchPart
  BY <1>1 DEF Init, WatchPart, WatchIsUp, InTime, Moved
<1>4. SavePart
  BY <1>1 DEF Init, NoPut, SavePart, Single, Promised, HasDraft, OrderlySaves
<1>5. QED
  BY <1>2, <1>3, <1>4 DEF IInv, WatchPart, SavePart

\* Over a file that has been truncated a draft is itself.
LEMMA OverEmpty == \A d : Over(Empty, d) = d
  BY DEF Over

LEMMA OverType == ASSUME NEW c, NEW d \in Texts  PROVE Over(c, d) \in Contents
  BY DEF Over, Contents

-----------------------------------------------------------------------------
(* main() and the watch: the saves are left alone.                         *)

LEMMA SavesKept ==
  ASSUME SavePart, UNCHANGED <<text, put, orderly>>
  PROVE  SavePart'
  BY DEF SavePart, Single, Promised, HasDraft, OrderlySaves, Idle, Resolves

LEMMA ReadPreserves ==
  ASSUME IInv, NEW f \in Files, Read(f)
  PROVE  IInv'
<1>1. watch.at = "off"
  BY DEF Read, Booting, IInv, WatchIsUp, TypeOK
<1>2. TypeOK'
  BY DEF Read, IInv, TypeOK, files, history
<1>3. WatchPart'
  BY <1>1 DEF Read, IInv, TypeOK, WatchPart, WatchIsUp, InTime, Moved, files, history
<1>4. SavePart'
  BY SavesKept DEF Read, IInv, SavePart, files, history
<1>5. QED
  BY <1>2, <1>3, <1>4 DEF IInv, WatchPart, SavePart

LEMMA RunPreserves ==
  ASSUME IInv, Run
  PROVE  IInv'
<1>1. TypeOK'
  BY DEF Run, IInv, TypeOK, files, history
<1>2. WatchPart'
  BY DEF Run, IInv, TypeOK, WatchPart, WatchIsUp, InTime, Moved, files, history
<1>3. SavePart'
  BY SavesKept DEF Run, IInv, SavePart, files, history
<1>4. QED
  BY <1>1, <1>2, <1>3 DEF IInv, WatchPart, SavePart

LEMMA FatalPreserves ==
  ASSUME IInv, Fatal
  PROVE  IInv'
<1>1. watch.at = "off"
  BY DEF Fatal, Booting, IInv, WatchIsUp, TypeOK
<1>2. TypeOK'
  BY DEF Fatal, IInv, TypeOK, Nothing, files, history
<1>3. WatchPart'
  BY <1>1 DEF Fatal, IInv, TypeOK, WatchPart, WatchIsUp, InTime, Moved, files, history
<1>4. SavePart'
  BY SavesKept DEF Fatal, IInv, SavePart, files, history
<1>5. QED
  BY <1>2, <1>3, <1>4 DEF IInv, WatchPart, SavePart

\* A new image starts with no watch and no save.  What was open but not yet
\* truncated has left files that resolve.
LEMMA BootPreserves ==
  ASSUME IInv, NEW p \in {"down", "starting", "restarting"}, Boot(p)
  PROVE  IInv'
<1>1. TypeOK'
  BY DEF Boot, IInv, TypeOK, NoWatch, NoPut, Nothing, Files, files
<1>2. WatchPart'
  BY DEF Boot, IInv, TypeOK, NoWatch, WatchPart, WatchIsUp, InTime, Moved, files
<1>3. orderly' => Resolves(text)
  <2> SUFFICES ASSUME orderly'  PROVE Resolves(text)
    OBVIOUS
  <2>1. orderly /\ \A w \in Workers : put[w].at # "write"
    BY DEF Boot
  <2>2. CASE Idle
    BY <2>1, <2>2 DEF IInv, OrderlySaves
  <2>3. CASE ~Idle
    <3>1. PICK w \in Workers : put[w].at # "idle"
      BY <2>3 DEF Idle
    <3>2. put[w].at = "open"
      BY <2>1, <3>1 DEF IInv, TypeOK
    <3>3. QED
      BY <2>1, <3>2 DEF IInv, Promised
  <2>4. QED
    BY <2>2, <2>3
<1>4. \A w \in Workers : put'[w].at = "idle"
  BY DEF Boot, NoPut
<1>5. SavePart'
  BY <1>3, <1>4 DEF Boot, files, SavePart, Single, Promised, HasDraft, OrderlySaves, Resolves
<1>6. QED
  BY <1>1, <1>2, <1>5 DEF IInv, WatchPart, SavePart

LEMMA WatchPreserves ==
  ASSUME IInv, FirstStamps \/ Notice \/ Settle \/ Ignore \/ ExecFails \/ \E f \in Files : Reread(f)
  PROVE  IInv'
<1> USE DEF Watch, files, main
<1>1. SavePart'
  BY SavesKept DEF FirstStamps, Notice, Settle, Ignore, ExecFails, Reread, IInv, SavePart
<1>2. CASE FirstStamps
  <2>1. /\ watch' = [watch EXCEPT !.at = "sleep", !.seen = stamp] /\ watch.at = "first"
        /\ UNCHANGED <<text, stamp, proc, plan, read, put, edits, orderly>>
    BY <1>2 DEF FirstStamps
  <2>2. overlooked' \in BOOLEAN
    BY <1>2 DEF FirstStamps
  <2>3. watch'.at = "sleep" /\ watch'.seen = stamp
    BY <2>1 DEF IInv, TypeOK
  <2>4. TypeOK'
    BY <2>1, <2>2 DEF IInv, TypeOK
  <2>5. WatchPart'
    BY <2>1, <2>3 DEF IInv, TypeOK, WatchPart, WatchIsUp, InTime, Moved
  <2>6. QED
    BY <1>1, <2>4, <2>5 DEF IInv, SavePart, WatchPart
<1>3. CASE Notice \/ Settle
  <2>1. /\ \/ watch' = [watch EXCEPT !.at = "settle"] /\ watch.at = "sleep" /\ watch.seen # stamp
           \/ watch' = [watch EXCEPT !.at = "read", !.seen = stamp] /\ watch.at = "settle"
        /\ UNCHANGED <<text, stamp, proc, plan, read, put, edits, orderly, overlooked>>
    BY <1>3 DEF Notice, Settle
  <2>2. /\ watch'.at \in {"settle", "read"} /\ watch'.seen \in {watch.seen, stamp}
        /\ watch.at # "off"
    BY <2>1 DEF IInv, TypeOK
  <2>3. \E f \in Files : read[f] < stamp[f]
    <3>1. CASE watch.at = "settle"
      BY <3>1 DEF IInv, Moved
    <3>2. CASE watch.at = "sleep" /\ watch.seen # stamp
      <4>1. PICK f \in Files : watch.seen[f] # stamp[f]
        BY <3>2 DEF IInv, TypeOK
      <4>2. /\ read[f] <= watch.seen[f] /\ watch.seen[f] <= stamp[f]
            /\ read[f] \in Nat /\ watch.seen[f] \in Nat /\ stamp[f] \in Nat
        BY <3>2 DEF IInv, TypeOK, InTime
      <4>3. QED
        BY <4>1, <4>2
    <3>3. QED
      BY <2>1, <3>1, <3>2
  <2>4. TypeOK'
    BY <2>1 DEF IInv, TypeOK
  <2>5. InTime'
    <3> SUFFICES ASSUME NEW f \in Files
                 PROVE  /\ read[f] <= stamp[f]
                        /\ read[f] <= watch'.seen[f] /\ watch'.seen[f] <= stamp[f]
      BY <2>1 DEF InTime
    <3>1. /\ read[f] <= stamp[f] /\ stamp[f] \in Nat
          /\ read[f] <= watch.seen[f] /\ watch.seen[f] <= stamp[f]
      BY <2>1 DEF IInv, TypeOK, InTime
    <3>2. QED
      BY <2>2, <3>1
  <2>6. WatchIsUp' /\ Moved'
    BY <2>1, <2>2, <2>3 DEF IInv, WatchIsUp, Moved
  <2>7. QED
    BY <1>1, <2>4, <2>5, <2>6 DEF IInv, SavePart
<1>5. CASE Ignore \/ ExecFails
  <2>1. /\ watch' = [watch EXCEPT !.at = "sleep", !.got = Nothing] /\ watch.at = "read"
        /\ UNCHANGED <<text, stamp, proc, plan, read, put, edits, orderly>>
        /\ overlooked' \in BOOLEAN
    BY <1>5 DEF Ignore, ExecFails, Validated, IInv, TypeOK
  <2>2. Nothing \in [Files -> Contents \cup {None}]
    BY DEF Nothing
  <2>3. watch'.at = "sleep" /\ watch'.seen = watch.seen
    BY <2>1 DEF IInv, TypeOK
  <2>4. TypeOK'
    BY <2>1, <2>2 DEF IInv, TypeOK
  <2>5. WatchPart'
    BY <2>1, <2>3 DEF IInv, WatchPart, WatchIsUp, InTime, Moved
  <2>6. QED
    BY <1>1, <2>4, <2>5 DEF IInv, SavePart, WatchPart
<1>6. ASSUME NEW f \in Files, Reread(f)  PROVE IInv'
  <2>1. /\ watch' = [watch EXCEPT !.got = [@ EXCEPT ![f] = text[f]]] /\ watch.at = "read"
        /\ UNCHANGED <<text, stamp, proc, plan, read, put, edits, orderly, overlooked>>
    BY <1>6 DEF Reread, IInv, TypeOK
  <2>2. [watch.got EXCEPT ![f] = text[f]] \in [Files -> Contents \cup {None}]
    BY DEF IInv, TypeOK
  <2>3. watch'.at = watch.at /\ watch'.seen = watch.seen
    BY <2>1 DEF IInv, TypeOK
  <2>4. TypeOK'
    BY <2>1, <2>2 DEF IInv, TypeOK
  <2>5. WatchPart'
    BY <2>1, <2>3 DEF IInv, WatchPart, WatchIsUp, InTime, Moved
  <2>6. SavePart'
    BY <2>1, SavesKept DEF IInv, SavePart
  <2>7. QED
    BY <2>4, <2>5, <2>6 DEF IInv, SavePart, WatchPart
<1>8. QED
  BY <1>2, <1>3, <1>5, <1>6

-----------------------------------------------------------------------------
(* The saves and the editor: the watch only sees stamps grow.              *)

LEMMA StoreKeepsTime ==
  ASSUME TypeOK, WatchPart, NEW f \in Files, NEW t \in Contents, Store(f, t),
         UNCHANGED <<proc, read, watch>>
  PROVE  /\ WatchPart'
         /\ text' \in [Files -> Contents] /\ stamp' \in [Files -> Nat]
  BY DEF Store, TypeOK, WatchPart, WatchIsUp, InTime, Moved

LEMMA TimeKept ==
  ASSUME WatchPart, UNCHANGED <<proc, read, watch, stamp>>
  PROVE  WatchPart'
  BY DEF WatchPart, WatchIsUp, InTime, Moved

LEMMA AcceptPreserves ==
  ASSUME IInv, NEW w \in Workers, NEW f \in Files, NEW d \in Texts, Accept(w, f, d)
  PROVE  IInv'
<1>1. /\ put' = [put EXCEPT ![w] = [at |-> "open", file |-> f, draft |-> d]]
      /\ put[w].at = "idle" /\ Resolves([text EXCEPT ![f] = d])
      /\ orderly' = (orderly /\ Idle) /\ UNCHANGED <<text, stamp, proc, plan, read, watch, overlooked>>
      /\ edits < MaxEdits /\ edits' = edits + 1
  BY DEF Accept, files, main
<1>2. TypeOK'
  BY <1>1 DEF IInv, TypeOK
<1>3. WatchPart'
  BY <1>1, TimeKept DEF IInv, WatchPart
<1>4. /\ put'[w] = [at |-> "open", file |-> f, draft |-> d]
      /\ \A v \in Workers \ {w} : put'[v] = put[v]
  BY <1>1 DEF IInv, TypeOK
<1>5. HasDraft'
  BY <1>4 DEF IInv, HasDraft
<1>6. ASSUME orderly'  PROVE Single' /\ Promised' /\ OrderlySaves'
  <2>1. orderly /\ Idle /\ Resolves(text)
    BY <1>1, <1>6 DEF IInv, OrderlySaves
  <2>2. \A v \in Workers \ {w} : put'[v].at = "idle"
    BY <1>4, <2>1 DEF Idle
  <2>3. QED
    BY <1>1, <1>4, <2>1, <2>2 DEF Single, Promised, OrderlySaves, Resolves
<1>7. QED
  BY <1>2, <1>3, <1>5, <1>6 DEF IInv, WatchPart, Single, Promised, OrderlySaves

LEMMA TruncatePreserves ==
  ASSUME IInv, NEW w \in Workers, Truncate(w)
  PROVE  IInv'
<1> DEFINE f == put[w].file
<1>1. /\ put[w].at = "open" /\ Store(f, Empty) /\ put' = [put EXCEPT ![w].at = "write"]
      /\ UNCHANGED <<proc, plan, read, watch, edits, overlooked, orderly>>
  BY DEF Truncate, main, history
<1>2. f \in Files /\ Empty \in Contents
  BY DEF IInv, TypeOK, Contents
<1>3. WatchPart' /\ text' \in [Files -> Contents] /\ stamp' \in [Files -> Nat]
  BY <1>1, <1>2, StoreKeepsTime DEF IInv, WatchPart
<1>4. TypeOK'
  BY <1>1, <1>3 DEF IInv, TypeOK
<1>5. /\ put'[w].at = "write" /\ put'[w].file = f /\ put'[w].draft = put[w].draft
      /\ \A v \in Workers \ {w} : put'[v] = put[v]
  BY <1>1 DEF IInv, TypeOK
<1>6. text' = [text EXCEPT ![f] = Empty]
  BY <1>1 DEF Store
<1>7. HasDraft'
  BY <1>1, <1>5 DEF IInv, HasDraft
<1>8. ASSUME orderly'  PROVE Single' /\ Promised' /\ OrderlySaves'
  <2>1. \A v \in Workers \ {w} : put'[v].at = "idle"
    BY <1>1, <1>5, <1>8 DEF IInv, Single
  <2>2. Resolves([text EXCEPT ![f] = put[w].draft])
    BY <1>1, <1>8 DEF IInv, Promised
  <2>3. [text' EXCEPT ![f] = put[w].draft] = [text EXCEPT ![f] = put[w].draft]
    BY <1>2, <1>6 DEF IInv, TypeOK
  <2>4. text'[f] = Empty
    BY <1>2, <1>6 DEF IInv, TypeOK
  <2>5. QED
    BY <1>5, <2>1, <2>2, <2>3, <2>4 DEF Single, Promised, OrderlySaves, Idle, Resolves
<1>9. QED
  BY <1>3, <1>4, <1>7, <1>8 DEF IInv, WatchPart, Single, Promised, OrderlySaves

\* A save that ends leaves every other as it was.
LEMMA SaveEnds ==
  ASSUME IInv, NEW w \in Workers, put' = [put EXCEPT ![w] = NoPut], orderly' => orderly,
         put[w].at # "idle", orderly' => Resolves(text')
  PROVE  SavePart'
<1>1. put'[w] = NoPut /\ \A v \in Workers \ {w} : put'[v] = put[v]
  BY DEF IInv, TypeOK
<1>2. HasDraft'
  BY <1>1 DEF IInv, HasDraft, NoPut
<1>3. ASSUME orderly'  PROVE \A v \in Workers : put'[v].at = "idle"
  BY <1>1, <1>3 DEF IInv, Single, NoPut
<1>4. QED
  BY <1>2, <1>3 DEF SavePart, Single, Promised, OrderlySaves, Resolves

LEMMA SavePreserves ==
  ASSUME IInv, NEW w \in Workers, Save(w)
  PROVE  IInv'
<1>1. CASE Truncate(w)
  BY <1>1, TruncatePreserves
<1>2. CASE OpenFails(w) \/ WriteFails(w)
  <2>1. /\ put' = [put EXCEPT ![w] = NoPut] /\ put[w].at # "idle"
        /\ UNCHANGED <<text, stamp, proc, plan, read, watch, edits, overlooked>>
    BY <1>2 DEF OpenFails, WriteFails, files, main, history
  <2>2. orderly' \in BOOLEAN /\ (orderly' => orderly /\ put[w].at = "open")
    <3>1. CASE OpenFails(w)
      BY <3>1 DEF OpenFails, history, IInv, TypeOK
    <3>2. CASE WriteFails(w)
      BY <3>2 DEF WriteFails
    <3>3. QED
      BY <1>2, <3>1, <3>2
  <2>3. orderly' => Resolves(text')
    BY <2>1, <2>2 DEF IInv, Promised, Resolves
  <2>4. SavePart'
    BY <2>1, <2>2, <2>3, SaveEnds
  <2>5. TypeOK' /\ WatchPart'
    BY <2>1, <2>2, TimeKept DEF IInv, TypeOK, WatchPart, NoPut, Files
  <2>6. QED
    BY <2>4, <2>5 DEF IInv, WatchPart, SavePart
<1>3. CASE Write(w)
  <2> DEFINE f == put[w].file
             d == put[w].draft
             t == Over(text[f], d)
  <2>1. /\ put' = [put EXCEPT ![w] = NoPut] /\ put[w].at = "write" /\ Store(f, t)
        /\ UNCHANGED <<proc, plan, read, watch, edits, overlooked, orderly>>
    BY <1>3 DEF Write, main, history
  <2>2. f \in Files /\ t \in Contents
    BY <2>1, OverType DEF IInv, TypeOK, HasDraft
  <2>3. WatchPart' /\ text' \in [Files -> Contents] /\ stamp' \in [Files -> Nat]
    BY <2>1, <2>2, StoreKeepsTime DEF IInv, WatchPart
  <2>4. TypeOK'
    BY <2>1, <2>3 DEF IInv, TypeOK, NoPut, Files
  <2>5. ASSUME orderly'  PROVE Resolves(text')
    <3>1. text[f] = Empty /\ Resolves([text EXCEPT ![f] = d])
      BY <2>1, <2>5 DEF IInv, Promised
    <3>2. t = d
      BY <3>1, OverEmpty
    <3>3. QED
      BY <2>1, <3>1, <3>2 DEF Store
  <2>6. SavePart'
    BY <2>1, <2>5, SaveEnds
  <2>7. QED
    BY <2>3, <2>4, <2>6 DEF IInv, WatchPart, SavePart
<1>4. QED
  BY <1>1, <1>2, <1>3 DEF Save

LEMMA EditPreserves ==
  ASSUME IInv, NEW f \in Files, NEW t \in Texts \cup {Empty}, Edit(f, t)
  PROVE  IInv'
<1>1. /\ Store(f, t) /\ edits < MaxEdits /\ edits' = edits + 1 /\ orderly' = FALSE
      /\ UNCHANGED <<proc, plan, read, watch, put, overlooked>>
  BY DEF Edit, main
<1>2. t \in Contents
  BY DEF Contents
<1>3. WatchPart' /\ text' \in [Files -> Contents] /\ stamp' \in [Files -> Nat]
  BY <1>1, <1>2, StoreKeepsTime DEF IInv, WatchPart
<1>4. ~orderly' /\ orderly' \in BOOLEAN
  BY <1>1
<1>5. TypeOK'
  BY <1>1, <1>3, <1>4 DEF IInv, TypeOK
<1>6. SavePart'
  BY <1>1, <1>4 DEF IInv, SavePart, Single, Promised, HasDraft, OrderlySaves
<1>7. QED
  BY <1>3, <1>5, <1>6 DEF IInv, WatchPart, SavePart

LEMMA StepPreserves == IInv /\ [Next]_vars => IInv'
<1> SUFFICES ASSUME IInv, [Next]_vars  PROVE IInv'
  OBVIOUS
<1>1. CASE Main
  BY <1>1, ReadPreserves, RunPreserves, FatalPreserves, BootPreserves DEF Main, Restart
<1>2. CASE Crash
  BY <1>2, BootPreserves DEF Crash
<1>3. CASE Watching \/ ExecFails
  BY <1>3, WatchPreserves, BootPreserves DEF Watching, Exec
<1>4. ASSUME NEW w \in Workers, Save(w)  PROVE IInv'
  BY <1>4, SavePreserves
<1>5. ASSUME NEW w \in Workers, NEW f \in Files, NEW d \in Texts, Accept(w, f, d)  PROVE IInv'
  BY <1>5, AcceptPreserves
<1>6. ASSUME NEW f \in Files, NEW t \in Texts \cup {Empty}, Edit(f, t)  PROVE IInv'
  BY <1>6, EditPreserves
<1>7. CASE UNCHANGED vars
  <2>1. SavePart'
    BY <1>7, SavesKept DEF vars, files, history, IInv, SavePart
  <2>2. TypeOK' /\ WatchPart'
    BY <1>7, TimeKept DEF vars, files, main, history, IInv, TypeOK, WatchPart
  <2>3. QED
    BY <2>1, <2>2 DEF IInv, SavePart, WatchPart
<1>8. QED
  BY <1>1, <1>2, <1>3, <1>4, <1>5, <1>6, <1>7 DEF Next

THEOREM Invariance == Spec => []IInv
  BY InitOK, StepPreserves, PTL DEF Spec

\* The types are right in every reachable state.
THEOREM TypeCorrect == Spec => []TypeOK
<1>1. IInv => TypeOK  BY DEF IInv
<1>2. QED  BY <1>1, Invariance, PTL

\* One save at a time, carried through, always leaves files that resolve
\* together, whatever the receiver does meanwhile.
THEOREM SavesAreSafe == Spec => []OrderlySaves
<1>1. IInv => OrderlySaves  BY DEF IInv
<1>2. QED  BY <1>1, Invariance, PTL

\* The receiver never re-executes itself without an edit it has not read.
THEOREM RestartsAreEarned == Spec => NoIdleRestart
<1>1. IInv => (Exec => read # stamp)
  BY DEF IInv, Exec, Validated, Moved, TypeOK
<1>2. IInv /\ [Next]_vars => [Exec => read # stamp]_vars
  BY <1>1
<1>3. QED
  BY <1>2, Invariance, PTL DEF Spec, NoIdleRestart
=============================================================================

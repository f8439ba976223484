----------------------------- MODULE ConfigReload -----------------------------
(***************************************************************************)
(* The two configuration files: saved through the daemon's admin routes    *)
(* (admin_routes.hpp), edited from outside, and watched by a thread that    *)
(* re-executes the daemon when an edit resolves (main.cpp).                *)
(*                                                                         *)
(* The handlers run on several HTTP workers without a lock, write in place *)
(* (truncate, then write), and die with the process, wherever they are.    *)
(***************************************************************************)
EXTENDS Naturals, FiniteSets

CONSTANTS
  Workers,    \* the HTTP workers that may serve a PUT at the same time
  Texts,      \* what a file may be given to hold
  Long,       \* the texts that are longer than the others
  Empty,      \* a file that has been truncated
  Mixed,      \* a short text written over a long one
  None,
  Resolving,  \* the pairs (config, stations) that resolve_text() accepts
  MaxEdits    \* bound: how many saves and edits there are

Files == {"config", "stations"}
Other == [f \in Files |-> CHOOSE g \in Files : g # f]

Contents == Texts \cup {Empty, Mixed}

ASSUME ConfigReloadAssumption ==
  /\ Empty \notin Texts \cup {Mixed} /\ Mixed \notin Texts
  /\ None \notin Contents
  /\ Long \subseteq Texts
  /\ Resolving \subseteq Contents \X Contents
  /\ MaxEdits \in Nat

Resolves(t) == <<t["config"], t["stations"]>> \in Resolving

VARIABLES
  text,    \* what each file holds
  stamp,   \* its FileStamp: every write leaves another
  proc,    \* main(): resolving after a start or a re-exec, up, or down
  plan,    \* what it has read of the files; once up, the running plan
  read,    \* history: the stamps at which it read them
  watch,   \* the watch thread: where it is, its stamps c and s, what it has read
  put,     \* each worker's PUT: where it is, the file and the draft
  edits,   \* the number of edits and saves so far
  overlooked,  \* history: an edit came before the first stamps, or an execv() failed
  orderly  \* history: files that resolve have only been saved, one save at a time, to the end

files == <<text, stamp>>
main == <<proc, plan, read>>
history == <<edits, overlooked, orderly>>
vars == <<files, main, watch, put, history>>

Nothing == [f \in Files |-> None]
NoWatch == [at |-> "off", seen |-> [f \in Files |-> 0], got |-> Nothing]
NoPut == [at |-> "idle", file |-> "config", draft |-> None]

Init ==
  /\ text \in [Files -> Texts] /\ stamp = [f \in Files |-> 1]
  /\ proc = "starting" /\ plan = Nothing /\ read = [f \in Files |-> 0]
  /\ watch = NoWatch
  /\ put = [w \in Workers |-> NoPut]
  /\ edits = 0 /\ overlooked = FALSE
  /\ orderly \in BOOLEAN /\ (orderly <=> Resolves(text))

-----------------------------------------------------------------------------
(* main().                                                                 *)

Booting == proc \in {"starting", "restarting"}

\* resolve() reads the two files, in either order.
Read(f) ==
  /\ Booting /\ plan[f] = None
  /\ plan' = [plan EXCEPT ![f] = text[f]]
  /\ read' = [read EXCEPT ![f] = stamp[f]]
  /\ UNCHANGED <<files, proc, watch, put, history>>

HasRead(t) == \A f \in Files : t[f] # None

\* They resolve: the watch and the server start.
Run ==
  /\ Booting /\ HasRead(plan) /\ Resolves(plan)
  /\ proc' = "up"
  /\ watch' = [watch EXCEPT !.at = "first"]
  /\ UNCHANGED <<files, plan, read, put, history>>

\* They do not: main() returns 1.
Fatal ==
  /\ Booting /\ HasRead(plan) /\ ~Resolves(plan)
  /\ proc' = "down" /\ plan' = Nothing
  /\ UNCHANGED <<files, read, watch, put, history>>

\* A new image, and with it the end of every thread; a file truncated by a save
\* that ends here stays so.
Boot(p) ==
  /\ proc' = p /\ plan' = Nothing
  /\ watch' = NoWatch /\ put' = [w \in Workers |-> NoPut]
  /\ overlooked' = FALSE
  /\ orderly' = (orderly /\ \A w \in Workers : put[w].at # "write")
  /\ UNCHANGED <<files, read, edits>>

\* The daemon crashes; the supervisor (restart: unless-stopped) starts it again.
Crash == proc = "up" /\ Boot("down")
Restart == proc = "down" /\ Boot("starting")

Main == Run \/ Fatal \/ Restart \/ \E f \in Files : Read(f)

-----------------------------------------------------------------------------
(* start_config_watch().  The stats of the two files are one step.         *)

Watch(w) == watch' = w /\ UNCHANGED <<files, main, put, edits, orderly>>

\* Mutant: the first stamps are FileStamp's defaults.
FirstStampsBlank ==
  /\ watch.at = "first"
  /\ Watch([watch EXCEPT !.at = "sleep"])
  /\ UNCHANGED overlooked

\* The first stamps are those of now, whatever main() has read.
FirstStamps ==
  /\ watch.at = "first"
  /\ Watch([watch EXCEPT !.at = "sleep", !.seen = stamp])
  /\ overlooked' = (read # stamp)

\* Two seconds later: something has changed.
Notice ==
  /\ watch.at = "sleep" /\ watch.seen # stamp
  /\ Watch([watch EXCEPT !.at = "settle"])
  /\ UNCHANGED overlooked

\* A second later: the stamps are taken, then the files are read.
Settle ==
  /\ watch.at = "settle"
  /\ Watch([watch EXCEPT !.at = "read", !.seen = stamp])
  /\ UNCHANGED overlooked

Reread(f) ==
  /\ watch.at = "read" /\ watch.got[f] = None
  /\ Watch([watch EXCEPT !.got[f] = text[f]])
  /\ UNCHANGED overlooked

\* Mutant: the stamps are taken once the edit has been judged.
IgnoreLate ==
  /\ watch.at = "read" /\ HasRead(watch.got) /\ ~Resolves(watch.got)
  /\ Watch([watch EXCEPT !.at = "sleep", !.got = Nothing, !.seen = stamp])
  /\ UNCHANGED overlooked

\* An edit that does not resolve is logged.
Ignore ==
  /\ watch.at = "read" /\ HasRead(watch.got) /\ ~Resolves(watch.got)
  /\ Watch([watch EXCEPT !.at = "sleep", !.got = Nothing])
  /\ UNCHANGED overlooked

Validated == watch.at = "read" /\ HasRead(watch.got) /\ Resolves(watch.got)

\* execv().
Exec == Validated /\ Boot("restarting")

\* execv() fails: the daemon stays up, with its stamps up to date.
ExecFails ==
  /\ Validated
  /\ Watch([watch EXCEPT !.at = "sleep", !.got = Nothing])
  /\ overlooked' = TRUE

Watching ==
  FirstStamps \/ Notice \/ Settle \/ Ignore \/ Exec \/ \E f \in Files : Reread(f)

-----------------------------------------------------------------------------
(* PUT /api/config/raw and PUT /api/stations/raw, on worker w.             *)

Idle == \A w \in Workers : put[w].at = "idle"

\* Mutant: the draft is validated with the other file of the running plan.
AcceptStale(w, f, d) ==
  /\ proc = "up" /\ put[w].at = "idle" /\ edits < MaxEdits
  /\ Resolves([plan EXCEPT ![f] = d])
  /\ put' = [put EXCEPT ![w] = [at |-> "open", file |-> f, draft |-> d]]
  /\ edits' = edits + 1
  /\ orderly' = (orderly /\ Idle)
  /\ UNCHANGED <<files, main, watch, overlooked>>

\* The other file is read and the draft resolves with it.  (A draft that does
\* not is answered 422 and changes nothing.)
Accept(w, f, d) ==
  /\ proc = "up" /\ put[w].at = "idle" /\ edits < MaxEdits
  /\ Resolves([text EXCEPT ![f] = d])
  /\ put' = [put EXCEPT ![w] = [at |-> "open", file |-> f, draft |-> d]]
  /\ edits' = edits + 1
  /\ orderly' = (orderly /\ Idle)
  /\ UNCHANGED <<files, main, watch, overlooked>>

Store(f, t) ==
  /\ text' = [text EXCEPT ![f] = t]
  /\ stamp' = [stamp EXCEPT ![f] = @ + 1]

\* What is written from the start of a file that has not been truncated since
\* leaves the end of what was longer.
Over(was, d) ==
  IF was \in Long \cup {Mixed} /\ d \notin Long THEN Mixed ELSE d

\* write_inplace(): the file is opened and truncated ...
Truncate(w) ==
  /\ put[w].at = "open"
  /\ Store(put[w].file, Empty)
  /\ put' = [put EXCEPT ![w].at = "write"]
  /\ UNCHANGED <<main, watch, history>>

\* ... or cannot be: 500 ...
OpenFails(w) ==
  /\ put[w].at = "open"
  /\ put' = [put EXCEPT ![w] = NoPut]
  /\ UNCHANGED <<files, main, watch, history>>

\* ... then the draft is written: 200 ...
Write(w) ==
  /\ put[w].at = "write"
  /\ Store(put[w].file, Over(text[put[w].file], put[w].draft))
  /\ put' = [put EXCEPT ![w] = NoPut]
  /\ UNCHANGED <<main, watch, history>>

\* ... or not: 500, and the file is left as it is.
WriteFails(w) ==
  /\ put[w].at = "write"
  /\ put' = [put EXCEPT ![w] = NoPut]
  /\ orderly' = FALSE
  /\ UNCHANGED <<files, main, watch, edits, overlooked>>

Save(w) == Truncate(w) \/ OpenFails(w) \/ Write(w) \/ WriteFails(w)

-----------------------------------------------------------------------------
\* An editor outside writes a file.
Edit(f, t) ==
  /\ edits < MaxEdits
  /\ Store(f, t)
  /\ edits' = edits + 1 /\ orderly' = FALSE
  /\ UNCHANGED <<main, watch, put, overlooked>>

Next ==
  \/ Main \/ Crash \/ Watching \/ ExecFails
  \/ \E w \in Workers : Save(w) \/ \E f \in Files, d \in Texts : Accept(w, f, d)
  \/ \E f \in Files, t \in Texts \cup {Empty} : Edit(f, t)

\* The threads run, and the supervisor does its part.  Nobody has to save.
Fairness ==
  /\ WF_vars(Main)
  /\ WF_vars(Watching)
  /\ \A w \in Workers : WF_vars(Save(w))

Spec == Init /\ [][Next]_vars /\ Fairness

-----------------------------------------------------------------------------
(* Properties.                                                             *)

\* Every variable holds a value of its kind.
TypeOK ==
  /\ text \in [Files -> Contents] /\ stamp \in [Files -> Nat]
  /\ proc \in {"down", "starting", "restarting", "up"}
  /\ plan \in [Files -> Contents \cup {None}] /\ read \in [Files -> Nat]
  /\ watch \in [at : {"off", "first", "sleep", "settle", "read"}, seen : [Files -> Nat],
                got : [Files -> Contents \cup {None}]]
  /\ put \in [Workers -> [at : {"idle", "open", "write"}, file : Files, draft : Texts \cup {None}]]
  /\ edits \in 0 .. MaxEdits /\ overlooked \in BOOLEAN /\ orderly \in BOOLEAN

\* The receiver interrupts its audio for a re-exec only if a file has changed
\* since the running plan was read: no edit, however it meets the watch's
\* stamps, makes it restart twice or for ever.
NoIdleRestart ==
  [][Exec => read # stamp]_vars

\* A save that is answered leaves two files that resolve together, as long as the
\* saves do not overlap, none is cut short and nobody else writes.
OrderlySaves ==
  orderly /\ Idle => Resolves(text)

\* Once the files are left alone in a state that resolves, the daemon runs them,
\* whatever it met in between: torn saves, crashes, bad edits, edits during its
\* own restart.  Two cases are excepted, and named by "overlooked".
Quiet ==
  /\ ~Crash /\ ~ExecFails
  /\ \A f \in Files : text'[f] = text[f]

EditsPickedUp ==
  <>[][Quiet]_vars /\ <>[](Resolves(text) /\ ~overlooked)
    => <>[](proc = "up" /\ plan = text)

=============================================================================

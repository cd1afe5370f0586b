------------------------------- MODULE Hooks -------------------------------
(***************************************************************************)
(* rb-hooks: one session of an agent CLI, seen through the processes the   *)
(* CLI starts for its events.  Each process lives for one event, keeps its *)
(* state in the session's scratch file, and gives up after five seconds    *)
(* wherever it waits for the daemon.  A process is cut at those waits: a   *)
(* write the daemon has committed and whose answer is still on its way is  *)
(* a state of its own, in which the process may end.                       *)
(*                                                                         *)
(* One hook process runs at a time.  Two that overlap rewrite the scratch  *)
(* over each other, which the code accepts as last writer wins.            *)
(***************************************************************************)
EXTENDS Naturals, FiniteSets, Sequences, SequencesExt, ContextLedger

CONSTANTS
    Observations,   \* what a tool event may add: files, commands, failures, outcomes
    Shaped,         \* those that read like instructions, which no summary repeats
    Cap,            \* MAX_FILES, MAX_COMMANDS, MAX_FAILURES
    SectionLimit,   \* SUMMARY_SECTION_LIMIT
    Evidence,       \* what the user confirms, in transcript order: [subject, correction]
    NoSubject,      \* a confirmation that names no subject
    MaxFacts,       \* the 128 fact identities a scratch keeps
    MaxNotes,       \* bound: a fold starts only if it leaves at most this many memories
    EarlyNotes,     \* bound: tools run, previews are given and people curate while at
                    \* most this many memories are stored; folds go on after that
    Memories,       \* stable memories of the project, most important first
    Fingerprints,   \* fingerprints their entries may have
    MaxStable       \* MAX_STABLE_ITEMS

ASSUME HooksAssumption ==
    /\ Shaped \subseteq Observations
    /\ SectionLimit \in Nat /\ Cap \in Nat /\ MaxFacts \in Nat
    /\ MaxNotes \in Nat /\ EarlyNotes \in Nat /\ MaxStable \in Nat
    /\ None \notin Fingerprints
    /\ DOMAIN Evidence \subseteq Nat

VARIABLES
    scratch,    \* the scratch file, Fresh when there is none
    notes,      \* the memories the hooks stored, by number
    hook,       \* the running hook process
    world,      \* the project's stable entries now
    host,       \* previews in the conversation that nothing has put in doubt yet
    owed,       \* observations recorded, but those a section limit or pruning dropped
    forgot,     \* an answer was lost after its commit, or not written to the scratch, or
                \* the scratch was removed
    expired     \* the scratch was removed, or not written, under a conversation that
                \* shows previews

vars == <<scratch, notes, hook, world, host, owed, forgot, expired>>

Untold == Nothing(Memories)

Fresh == [obs |-> <<>>, prior |-> None, facts |-> {}, ledger |-> Untold,
          known |-> FALSE, unknown |-> FALSE]

Idle == [pc |-> "idle"]

Init ==
    /\ scratch = Fresh /\ notes = <<>> /\ hook = Idle
    /\ world = Untold /\ host = Untold /\ owed = {}
    /\ forgot = FALSE /\ expired = FALSE

-----------------------------------------------------------------------------
(* The scratch file.  write is best effort: when it fails the file is what it was. *)

\* append_many: exact repeats coalesce and a full list takes nothing more
Appended(list, o) == IF o \in ToSet(list) \/ Len(list) >= Cap THEN list ELSE Append(list, o)

\* Mutant: the summary's identity is dropped with the observations
mark_folded_without_id(s, id) == [s EXCEPT !.obs = <<>>, !.prior = None]

\* The observations go; the facts and the context ledger stay.
mark_folded(s, id) == [s EXCEPT !.obs = <<>>, !.prior = id]

mark_checkpointed(s, id) == [s EXCEPT !.prior = id]

record_fact(s, e, id) ==
    IF Cardinality(s.facts) < MaxFacts
    THEN [s EXCEPT !.facts = @ \cup {[ev |-> e, id |-> id, retired |-> FALSE]}]
    ELSE s

mark_fact_retired(s, id) ==
    [s EXCEPT !.facts = {IF f.id = id THEN [f EXCEPT !.retired = TRUE] ELSE f : f \in @}]

record_context(s, delivery) ==
    [s EXCEPT !.ledger = delivery, !.known = TRUE, !.unknown = FALSE]

mark_resumed(s) ==
    IF ~s.known /\ s.ledger = Untold THEN [s EXCEPT !.unknown = TRUE] ELSE s

\* CapturedFact::corrects: a stored correction covers earlier evidence on its subject
corrects(f, e) ==
    /\ Evidence[f.ev].correction
    /\ Evidence[e].subject # NoSubject /\ Evidence[f.ev].subject = Evidence[e].subject
    /\ e < f.ev

\* prune_stale_in: another session's start finds the file untouched for a day
prune_stale ==
    /\ hook = Idle /\ scratch # Fresh
    /\ scratch' = Fresh
    /\ owed' = owed \ ToSet(scratch.obs)
    /\ forgot' = TRUE
    /\ expired' = (expired \/ host # Untold)
    /\ UNCHANGED <<notes, hook, world, host>>

-----------------------------------------------------------------------------
(* The daemon: a hook's remember, then suppress_hook_near_duplicates *)

LiveNotes == {i \in DOMAIN notes : notes[i].live}

Equivalents(kind, about) == {i \in LiveNotes : notes[i].kind = kind /\ notes[i].about = about}
Curated(dups) == {i \in dups : notes[i].curated}

\* Mutant: the answer is always the new id
SurvivorNew(dups) == Len(notes) + 1

\* The id the daemon answers with: a curated duplicate outlives the new memory.
Survivor(dups) ==
    IF Curated(dups) = {} THEN Len(notes) + 1 ELSE CHOOSE i \in Curated(dups) : TRUE

\* The replaced memory is archived if it is still current.  Rows that say the same may
\* differ in their context, so any of them may be found equivalent and superseded.
Remembered(kind, about, prior, dups) ==
    Append([i \in DOMAIN notes |->
               [notes[i] EXCEPT !.live = @ /\ i # prior /\ i \notin dups \ Curated(dups)]],
           [kind |-> kind, about |-> about, live |-> Curated(dups) = {}, curated |-> FALSE])

\* An automatic write may not replace a curated row, archived or not.
Refuses(prior) == prior # None /\ notes[prior].curated

\* A person marks a memory the hooks stored as curated (one of them).
curate(i) ==
    /\ hook = Idle /\ i \in LiveNotes /\ \A k \in DOMAIN notes : ~notes[k].curated
    /\ notes' = [notes EXCEPT ![i].curated = TRUE]
    /\ UNCHANGED <<scratch, hook, world, host, owed, forgot, expired>>

-----------------------------------------------------------------------------
(* PostToolUse *)

post_tool_use(o) ==
    /\ hook = Idle
    /\ scratch' = [scratch EXCEPT !.obs = Appended(@, o)]
    /\ owed' = owed \cup ToSet(scratch'.obs)
    /\ scratch' # scratch
    /\ UNCHANGED <<notes, hook, world, host, forgot, expired>>

-----------------------------------------------------------------------------
(* SessionEnd, SessionCheckpoint and PreCompact: fold_session_summary *)

\* filter_instruction_shaped and push_section
Listed(list) ==
    LET kept == SelectSeq(list, LAMBDA o : o \notin Shaped)
    IN  ToSet(SubSeq(kept, 1, IF Len(kept) < SectionLimit THEN Len(kept) ELSE SectionLimit))

\* The scratch is read once, before the first wait.  The digest holds any window of the
\* transcript; evidence a stored correction covers is taken out of it (the
\* session has one transcript, so the source of evidence never differs).  other is the rest
\* of what a summary reports: the goal and the files git sees.
fold_session_summary(mode, window, other, connected) ==
    /\ hook = Idle /\ Len(notes) + Cardinality(window) < MaxNotes
    /\ LET kept == {e \in window : ~\E f \in scratch.facts : corrects(f, e)}
       IN  hook' = [pc |-> IF connected THEN "facts" ELSE "summary",
                    mode |-> mode, data |-> [obs |-> scratch.obs, prior |-> scratch.prior],
                    connected |-> connected,
                    todo |-> kept, id |-> None, clean |-> connected,
                    content |-> other \/ kept # {} \/ Listed(scratch.obs) # {}]
    /\ UNCHANGED <<scratch, notes, world, host, owed, forgot, expired>>

At(pc) == hook.pc = pc
Earliest(E) == CHOOSE e \in E : \A d \in E : e <= d
Current == Earliest(hook.todo)
Recorded(e) == \E f \in scratch.facts : f.ev = e
Passed == [hook EXCEPT !.pc = "facts", !.todo = @ \ {Current}, !.id = None]
Failed == [Passed EXCEPT !.clean = FALSE]

\* The latest unretired fact a correction replaces
Prior(e) ==
    LET P == {f \in scratch.facts : /\ Evidence[e].correction /\ ~f.retired
                                    /\ Evidence[e].subject # NoSubject
                                    /\ Evidence[f.ev].subject = Evidence[e].subject
                                    /\ f.ev < e}
    IN  IF P = {} THEN None ELSE (CHOOSE f \in P : \A g \in P : g.ev <= f.ev).id

\* store_confirmed_facts, its first loop: one piece of evidence
skip_fact ==
    /\ At("facts") /\ hook.todo # {}
    /\ Recorded(Current) \/ Cardinality(scratch.facts) >= MaxFacts
    /\ hook' = Passed
    /\ UNCHANGED <<scratch, notes, world, host, owed, forgot, expired>>

Wanted == /\ At("facts") /\ hook.todo # {}
          /\ ~Recorded(Current) /\ Cardinality(scratch.facts) < MaxFacts

store_fact(dups) ==
    /\ Wanted /\ ~Refuses(Prior(Current)) /\ dups \subseteq Equivalents("fact", Current)
    /\ notes' = Remembered("fact", Current, Prior(Current), dups)
    /\ hook' = [hook EXCEPT !.pc = "fact_stored", !.id = Survivor(dups)]
    /\ UNCHANGED <<scratch, world, host, owed, forgot, expired>>

\* The daemon refuses, or does not get to it: the loop goes on
fact_refused ==
    /\ Wanted /\ hook' = Failed
    /\ UNCHANGED <<scratch, notes, world, host, owed, forgot, expired>>

fact_answered ==
    /\ At("fact_stored")
    /\ scratch' = record_fact(scratch, Current, hook.id)
    /\ hook' = Passed
    /\ UNCHANGED <<notes, world, host, owed, forgot, expired>>

\* The answer is lost, or the scratch cannot be written: the file is the same.
fact_unanswered ==
    /\ At("fact_stored") /\ hook' = Failed /\ forgot' = TRUE
    /\ UNCHANGED <<scratch, notes, world, host, owed, expired>>

\* The second loop's facts: unretired, and covered by a stored correction
Covered == {f.id : f \in {f \in scratch.facts :
    ~f.retired /\ \E g \in scratch.facts : corrects(g, f.ev)}}

Retiring(ids) == [hook EXCEPT !.todo = ids, !.pc = IF ids = {} THEN "summary" ELSE "retire"]

begin_retirement ==
    /\ At("facts") /\ hook.todo = {}
    /\ hook' = Retiring(Covered)
    /\ UNCHANGED <<scratch, notes, world, host, owed, forgot, expired>>

\* Archiving a row that is already archived succeeds.
retire_fact(id) ==
    /\ At("retire") /\ id \in hook.todo
    /\ notes' = [notes EXCEPT ![id].live = FALSE]
    /\ scratch' = mark_fact_retired(scratch, id)
    /\ hook' = Retiring(hook.todo \ {id})
    /\ UNCHANGED <<world, host, owed, forgot, expired>>

\* Mutant: the fact is marked whatever the daemon said
retire_failed_marking(id, committed) ==
    /\ At("retire") /\ id \in hook.todo
    /\ notes' = IF committed THEN [notes EXCEPT ![id].live = FALSE] ELSE notes
    /\ scratch' = mark_fact_retired(scratch, id)
    /\ hook' = [Retiring(hook.todo \ {id}) EXCEPT !.clean = FALSE]
    /\ UNCHANGED <<world, host, owed, forgot, expired>>

\* Nothing is marked: no answer, or the scratch cannot be written
retire_failed(id, committed) ==
    /\ At("retire") /\ id \in hook.todo
    /\ notes' = IF committed THEN [notes EXCEPT ![id].live = FALSE] ELSE notes
    /\ hook' = [Retiring(hook.todo \ {id}) EXCEPT !.clean = FALSE]
    /\ UNCHANGED <<scratch, world, host, owed, forgot, expired>>

Done == [hook EXCEPT !.pc = "done", !.todo = {}, !.id = None]

\* What a reset drops for good: the listed part went into the summary
Elided == ToSet(scratch.obs) \ Listed(hook.data.obs)

\* build_session_summary returned None
no_summary ==
    /\ At("summary") /\ ~hook.content
    /\ \/ /\ hook.mode = "end"
          /\ scratch' = mark_folded(scratch, hook.data.prior)
          /\ owed' = owed \ Elided
       \/ UNCHANGED <<scratch, owed>>   \* a checkpoint, or the scratch cannot be written
    /\ hook' = Done
    /\ UNCHANGED <<notes, world, host, forgot, expired>>

\* Mutant: the end of the session clears the scratch whatever happened
disconnected_resetting ==
    /\ At("summary") /\ hook.content /\ ~hook.connected
    /\ scratch' = IF hook.mode = "end" THEN mark_folded(scratch, hook.data.prior) ELSE scratch
    /\ hook' = Done
    /\ UNCHANGED <<notes, world, host, owed, forgot, expired>>

\* No connection: the scratch stays as it is
disconnected ==
    /\ At("summary") /\ hook.content /\ ~hook.connected
    /\ hook' = Done
    /\ UNCHANGED <<scratch, notes, world, host, owed, forgot, expired>>

store_session_summary(dups) ==
    /\ At("summary") /\ hook.content /\ hook.connected
    /\ ~Refuses(hook.data.prior)
    /\ LET about == Listed(hook.data.obs)
       IN  /\ dups \subseteq Equivalents("summary", about)
           /\ notes' = Remembered("summary", about, hook.data.prior, dups)
    /\ hook' = [hook EXCEPT !.pc = "summary_stored", !.id = Survivor(dups)]
    /\ UNCHANGED <<scratch, world, host, owed, forgot, expired>>

summary_failed ==
    /\ At("summary") /\ hook.content /\ hook.connected
    /\ hook' = [Done EXCEPT !.clean = FALSE]
    /\ UNCHANGED <<scratch, notes, world, host, owed, forgot, expired>>

\* A refusal is an answer: nothing went wrong on the way.
summary_refused ==
    /\ At("summary") /\ hook.content /\ hook.connected /\ Refuses(hook.data.prior)
    /\ hook' = Done
    /\ UNCHANGED <<scratch, notes, world, host, owed, forgot, expired>>

\* Only now is the scratch reset.
summary_answered ==
    /\ At("summary_stored")
    /\ \/ /\ hook.mode = "end"
          /\ scratch' = mark_folded(scratch, hook.id)
          /\ owed' = owed \ Elided
       \/ /\ hook.mode = "checkpoint"
          /\ scratch' = mark_checkpointed(scratch, hook.id)
          /\ UNCHANGED owed
    /\ hook' = Done
    /\ UNCHANGED <<notes, world, host, forgot, expired>>

\* The answer is lost, or the scratch cannot be written
summary_unanswered ==
    /\ At("summary_stored")
    /\ hook' = [Done EXCEPT !.clean = FALSE] /\ forgot' = TRUE
    /\ UNCHANGED <<scratch, notes, world, host, owed, expired>>

\* CAPTURE_TIMEOUT, at any wait
capture_timeout ==
    /\ hook.pc \notin {"idle", "done"}
    /\ hook' = Idle
    /\ forgot' = (forgot \/ hook.pc \in {"fact_stored", "summary_stored"})
    /\ UNCHANGED <<scratch, notes, world, host, owed, expired>>

exit ==
    /\ At("done") /\ hook' = Idle
    /\ UNCHANGED <<scratch, notes, world, host, owed, forgot, expired>>

-----------------------------------------------------------------------------
(* SessionStart, UserPromptSubmit and BeforeAgentStart: context previews *)

\* Somebody edits, archives or adds a stable memory.  A fold neither reads nor writes
\* the stable entries, so an edit during one is the same edit before or after it.
edit(m, v) ==
    /\ hook.pc \in {"idle", "prompt", "prepare"} /\ world[m] # v
    /\ world' = [world EXCEPT ![m] = v]
    /\ UNCHANGED <<scratch, notes, hook, host, owed, forgot, expired>>

\* resume: the conversation is the old one
session_resume ==
    /\ hook = Idle
    /\ scratch' = mark_resumed(scratch)
    /\ expired' = (expired /\ ~scratch'.unknown)
    /\ UNCHANGED <<notes, hook, world, host, owed, forgot>>

\* startup, clear, compact: the host starts from a new text; without an answer from the
\* daemon nothing is injected and nothing recorded
session_start(answered) ==
    /\ hook = Idle
    /\ \/ /\ answered
          /\ host' = Record(world, MaxStable)
          /\ scratch' = record_context(scratch, Record(world, MaxStable))
       \/ /\ ~answered
          /\ host' = Untold
          /\ UNCHANGED scratch
    /\ expired' = FALSE
    /\ UNCHANGED <<notes, hook, world, owed, forgot>>

\* The same, and the scratch cannot be written
session_start_unrecorded ==
    /\ hook = Idle
    /\ host' = Record(world, MaxStable)
    /\ expired' = (host' # Untold)
    /\ UNCHANGED <<scratch, notes, hook, world, owed, forgot>>

\* prepare_prompt up to its first wait
prompt(startup) ==
    /\ hook = Idle /\ (startup => ~scratch.known)
    /\ hook' = [pc |-> "prompt", startup |-> startup, data |-> scratch]
    /\ UNCHANGED <<scratch, notes, world, host, owed, forgot, expired>>

\* Mutant: the corrected ledger is saved before the recall that may be cancelled
prompt_context_saving(answered) ==
    /\ At("prompt")
    /\ LET asked == hook.startup \/ hook.data.ledger # Untold
       IN  /\ answered => asked
           /\ hook' = [pc |-> "prepare", startup |-> hook.startup, data |-> hook.data,
                       answered |-> answered,
                       context |-> IF answered THEN world ELSE Untold]
    /\ scratch' = record_context(scratch,
                      IF answered THEN Corrected(hook.data.ledger, world) ELSE hook.data.ledger)
    /\ UNCHANGED <<notes, world, host, owed, forgot, expired>>

\* client.context(), asked for only where it can matter; answered or not
prompt_context(answered) ==
    /\ At("prompt")
    /\ LET asked == hook.startup \/ hook.data.ledger # Untold
       IN  /\ answered => asked
           /\ hook' = [pc |-> "prepare", startup |-> hook.startup, data |-> hook.data,
                       answered |-> answered,
                       context |-> IF answered THEN world ELSE Untold]
    /\ UNCHANGED <<scratch, notes, world, host, owed, forgot, expired>>

\* The earlier previews the message puts in doubt: all of them when it cannot tell
Doubted ==
    LET d == hook.data
    IN  IF d.unknown \/ (d.ledger # Untold /\ ~hook.answered)
        THEN Memories
        ELSE IF hook.answered THEN Changed(d.ledger, hook.context) ELSE {}

\* correction drops what it names; the two other notices drop nothing
Kept ==
    IF hook.data.unknown \/ ~hook.answered
    THEN hook.data.ledger ELSE Corrected(hook.data.ledger, hook.context)

Shown == IF hook.startup /\ hook.answered THEN Record(hook.context, MaxStable) ELSE Untold

\* The conversation with the message in it
Prepared ==
    [m \in Memories |-> IF Shown[m] # None THEN Shown[m]
                        ELSE IF m \in Doubted THEN None ELSE host[m]]

\* The message, and the ledger saved with no wait after it.  A startup whose context
\* did not come is not recorded and stays pending.
prepare ==
    /\ At("prepare")
    /\ host' = Prepared
    /\ scratch' = IF ~hook.startup THEN record_context(scratch, Kept)
                  ELSE IF hook.answered THEN record_context(scratch, Shown) ELSE scratch
    /\ hook' = Idle
    /\ UNCHANGED <<notes, world, owed, forgot, expired>>

\* The scratch cannot be written
prepare_unrecorded ==
    /\ At("prepare")
    /\ host' = Prepared
    /\ expired' = (expired \/ Shown # Untold)
    /\ hook' = Idle
    /\ UNCHANGED <<scratch, notes, world, owed, forgot>>

-----------------------------------------------------------------------------
Early ==
    /\ Len(notes) <= EarlyNotes
    /\ \/ \E o \in Observations : post_tool_use(o)
       \/ \E i \in DOMAIN notes : curate(i)
       \/ \E m \in Memories, v \in Fingerprints \cup {None} : edit(m, v)
       \/ session_resume
       \/ \E b \in BOOLEAN : session_start(b) \/ prompt(b) \/ prompt_context(b)
       \/ session_start_unrecorded \/ prepare \/ prepare_unrecorded

Fold ==
    \/ \E mode \in {"end", "checkpoint"}, window \in SUBSET DOMAIN Evidence,
          other \in BOOLEAN, connected \in BOOLEAN :
          fold_session_summary(mode, window, other, connected)
    \/ skip_fact \/ fact_refused \/ fact_answered \/ fact_unanswered
    \/ \E dups \in SUBSET DOMAIN notes : store_fact(dups) \/ store_session_summary(dups)
    \/ begin_retirement
    \/ \E id \in DOMAIN notes :
          retire_fact(id) \/ \E c \in BOOLEAN : retire_failed(id, c)
    \/ no_summary \/ disconnected \/ summary_failed \/ summary_refused
    \/ summary_answered \/ summary_unanswered \/ exit

Next == Early \/ Fold \/ capture_timeout \/ prune_stale

Spec == Init /\ [][Next]_vars

-----------------------------------------------------------------------------
(* Properties *)

Stored(o) == \E i \in DOMAIN notes : notes[i].kind = "summary" /\ o \in notes[i].about

\* Nothing a tool event recorded is lost to a crash, a timeout or a daemon that is down:
\* it is in the scratch or in a summary the daemon stored, unless the section limit or
\* the day-old pruning dropped it.
ObservationsKept ==
    \A o \in owed \ Shaped : o \in ToSet(scratch.obs) \/ Stored(o)

\* A fold in which no answer was lost or left unwritten has put every observation it lists into a summary,
\* and the scratch names a live one, unless a person curated the one it would replace.
CleanFoldCovers ==
    At("done") /\ hook.clean /\ hook.content /\ ~Refuses(hook.data.prior) =>
        /\ \A o \in Listed(hook.data.obs) : Stored(o)
        /\ scratch.prior \in LiveNotes

\* However often a session is folded and resumed it has one live summary, unless an
\* answer was lost or not written down, or the scratch removed.
OneLiveSummary ==
    ~forgot => Cardinality({i \in LiveNotes : notes[i].kind = "summary"}) <= 1

\* After a fold in which no answer was lost or left unwritten, no fact of the session's ledger that a
\* stored correction covers is still live, whichever earlier fold left it so.
CorrectionsRetired ==
    At("done") /\ hook.clean =>
        \A f, g \in scratch.facts : corrects(g, f.ev) => f.id \notin LiveNotes

\* A preview in the conversation that is no longer current, and that nothing has put in
\* doubt, is still in the ledger (or the ledger is marked as unknown): the next prompt
\* discloses it, whatever hooks were cancelled before, unless the scratch was removed or the
\* record of a startup preview could not be written.
PreviewsTracked ==
    hook = Idle /\ ~expired =>
        \A m \in Memories : host[m] # None /\ world[m] # host[m] =>
            scratch.ledger[m] = host[m] \/ scratch.unknown
=============================================================================

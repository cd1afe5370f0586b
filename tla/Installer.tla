----------------------------- MODULE Installer -----------------------------
(***************************************************************************)
(* rusty-brain-install: what an install, an upgrade and an uninstall do to *)
(* the files of two agents.  One agent has a JSON settings file (our hook  *)
(* groups and permission entries among the user's), a skill file of ours   *)
(* and a text file with a marked block; the other has one extension file   *)
(* that carries its own digest.                                            *)
(*                                                                         *)
(* Every helper replaces one file by an atomic rename, so a step is one    *)
(* helper; between two the user edits, a write is refused (or fails to be  *)
(* synced after the rename), or the process dies.  The extension is looked *)
(* at, looked at again and then published or removed, and the user may act *)
(* between any two of these.                                               *)
(* Hook groups and text blocks carry a mark of ours; permission entries    *)
(* are plain strings, known as ours only by being in a version's list.     *)
(***************************************************************************)
EXTENDS Naturals, FiniteSets, Sequences, SequencesExt

CONSTANTS
    Versions,   \* versions of the installer, and so of what it writes
    Events,     \* the events hooks can be set for
    Fragment,   \* the events for which each version has a hook group
    AllowEntries, \* the permission entries of each version
    UserAllows, \* what the user may have in permissions.allow before any install
    MaxRuns,    \* bound: runs of the installer
    MaxFaults,  \* bound: refused writes and deaths
    MaxEdits    \* bound: edits of the user

ASSUME InstallerAssumption ==
    /\ MaxRuns \in Nat /\ MaxFaults \in Nat /\ MaxEdits \in Nat
    /\ Versions \cap {"user", "absent", "drifted"} = {}
    /\ Fragment \in [Versions -> SUBSET Events] /\ DOMAIN AllowEntries = Versions

VARIABLES
    settings,  \* the settings file: whether it parses; hooks, which is lists of groups
               \* by event, or a value of another shape; the allowed tools
    skill,     \* the skill file: the version of its text, or absent
    notes,     \* the text file: paragraphs of the user and blocks of ours
    asset,     \* the extension: absent, a version of ours untouched, drifted, or user
    run,       \* the installer's process, with the extension as it saw it; history: how
               \* many edits there were when it last looked, whether its rollback failed
    report,    \* what the last run said of the first agent, and that run's version
    user,      \* history: what the user has put into the files
    spent      \* bounds: runs, faults and edits so far

installvars == <<settings, skill, notes, asset, run, report, user, spent>>
files == <<settings, skill, notes, asset>>

\* The entries of seq that are in S, in their order; an entry is a version of ours or the
\* user's.
Only(seq, S) ==
    LET kept[n \in 0 .. Len(seq)] ==
            IF n = 0 THEN <<>>
            ELSE IF seq[n] \in S THEN Append(kept[n - 1], seq[n]) ELSE kept[n - 1]
    IN kept[Len(seq)]

Ours(seq) == Only(seq, Versions)
Theirs(seq) == Only(seq, {"user"})

NoRun == [kind |-> "none", pc |-> "idle", version |-> "absent", seen |-> "absent", edits |-> 0,
          botched |-> FALSE]

\* hooks: lists (or nothing at all), a non-empty container of another shape, or a scalar
Shapes == {"lists", "container", "scalar"}

InstallInit ==
    /\ settings \in [parses : {TRUE}, hooks : Shapes, groups : {[e \in Events |-> <<>>]},
                     allow : UserAllows]
    /\ skill = "absent" /\ notes = <<"user">> /\ asset = "absent"
    /\ run = NoRun /\ report = [said |-> "none", by |-> "absent"]
    /\ user = [groups |-> [e \in Events |-> 0], notes |-> 1,
               hooks |-> settings.hooks, allow |-> settings.allow]
    /\ spent = [runs |-> 0, faults |-> 0, edits |-> 0]

At(pc) == run.pc = pc
Move(pc) == run' = [run EXCEPT !.pc = pc]
Say(x) == report' = [report EXCEPT !.said = x]

\* run_install, run_uninstall
start(kind, v) ==
    /\ At("idle") /\ spent.runs < MaxRuns
    /\ run' = [NoRun EXCEPT !.kind = kind, !.version = v,
                            !.pc = IF kind = "install" THEN "merge" ELSE "strip"]
    /\ report' = [said |-> "none", by |-> v]
    /\ spent' = [spent EXCEPT !.runs = @ + 1]
    /\ UNCHANGED <<files, user>>

\* An agent that is not on the machine is left alone by an install.
not_found ==
    /\ \/ At("merge") /\ Move("look") /\ Say("not_found")
       \/ At("look") /\ run.kind # "uninstall" /\ run' = NoRun /\ UNCHANGED report
    /\ UNCHANGED <<files, user, spent>>

-----------------------------------------------------------------------------
(* The agent with a settings file *)

\* merge_value on a list: sentinel groups go, the fragment's are appended.
Merged(groups, v) == Append(Theirs(groups), v)

\* merge_value on hooks: only the fragment's events are looked at.  A container of another
\* shape is kept as it is; a scalar gives way to the fragment.
merge_value(old, v) ==
    IF old.hooks = "container" THEN old
    ELSE [old EXCEPT !.hooks = "lists",
                     !.groups = [e \in Events |-> IF e \in Fragment[v] THEN Merged(old.groups[e], v)
                                                  ELSE old.groups[e]]]

Merges ==
    /\ At("merge") /\ settings.parses /\ settings' = merge_value(settings, run.version)
    /\ UNCHANGED <<skill, notes, asset>>

merge_into_file == Merges /\ Move("allow") /\ UNCHANGED <<report, user, spent>>

\* The version's entries join whatever others are there.
Allows ==
    /\ At("allow") /\ settings.parses
    /\ settings' = [settings EXCEPT !.allow = @ \cup AllowEntries[run.version]]
    /\ UNCHANGED <<skill, notes, asset>>

ensure_allow_entries == Allows /\ Move("file") /\ UNCHANGED <<report, user, spent>>

PutsFile == At("file") /\ skill' = run.version /\ UNCHANGED <<settings, notes, asset>>

write_managed_file == PutsFile /\ Move("block") /\ UNCHANGED <<report, user, spent>>

\* Mutant: the file is written anew
BlockAlone(text, v) == <<v>>

\* A block found is replaced where it is; otherwise ours goes to the end.
WithBlock(text, v) ==
    IF Ours(text) = <<>> THEN Append(text, v)
    ELSE [i \in DOMAIN text |->
             IF text[i] \in Versions /\ \A j \in 1 .. i - 1 : text[j] \notin Versions
             THEN v ELSE text[i]]

PutsBlock ==
    At("block") /\ notes' = WithBlock(notes, run.version) /\ UNCHANGED <<settings, skill, asset>>

ensure_text_block == PutsBlock /\ Move("look") /\ Say("configured") /\ UNCHANGED <<user, spent>>

\* strip_sentinel: every group with our mark goes, whichever version wrote it.
Stripped(groups) == [e \in Events |-> Theirs(groups[e])]

Strips ==
    /\ At("strip") /\ settings.parses
    /\ settings' = [settings EXCEPT !.groups = Stripped(settings.groups)]
    /\ UNCHANGED <<skill, notes, asset>>

AfterStrip == IF run.kind = "rollback" THEN "look" ELSE "un_allow"
AfterReverse == IF run.kind = "rollback" THEN "strip" ELSE "look"

uninstall_file == Strips /\ Move(AfterStrip) /\ UNCHANGED <<report, user, spent>>

\* Entries equal to this version's go, whoever put them there; another version's stay.
Disallows ==
    /\ At("un_allow") /\ settings.parses
    /\ settings' = [settings EXCEPT !.allow = @ \ AllowEntries[run.version]]
    /\ UNCHANGED <<skill, notes, asset>>

remove_allow_entries == Disallows /\ Move("un_file") /\ UNCHANGED <<report, user, spent>>

remove_managed_file ==
    /\ At("un_file") /\ skill' = "absent"
    /\ Move("un_block") /\ UNCHANGED <<settings, notes, asset, report, user, spent>>

\* uninstall_result.and(reverse_result)
Outcome == IF report.said = "none" THEN "removed" ELSE report.said

\* The first block goes, with the line break before it.
DropsBlock ==
    /\ At("un_block")
    /\ notes' = IF Ours(notes) = <<>> THEN notes
                ELSE RemoveAt(notes, CHOOSE i \in DOMAIN notes :
                        notes[i] \in Versions /\ \A j \in 1 .. i - 1 : notes[j] \notin Versions)
    /\ UNCHANGED <<settings, skill, asset>>

remove_text_block ==
    /\ DropsBlock /\ Move(AfterReverse)
    /\ Say(IF run.kind = "uninstall" THEN Outcome ELSE report.said)
    /\ UNCHANGED <<user, spent>>

ReadsSettings == {"merge", "allow", "strip", "un_allow"}
Installing == {"merge", "allow", "file", "block"}
Reversing == {"un_allow", "un_file", "un_block"}

\* Mutant: a failed install is only reported
OnErrorReport == [run EXCEPT !.pc = "look"]

\* A failed install is rolled back; a failed removal ends its own series.
OnError ==
    IF run.pc \in Installing THEN [run EXCEPT !.kind = "rollback", !.pc = "un_allow"]
    ELSE [run EXCEPT !.pc = IF run.pc \in Reversing THEN AfterReverse ELSE AfterStrip,
                     !.botched = TRUE]

\* What write has renamed into place when it syncs the directory
Renamed == Merges \/ Allows \/ PutsFile \/ PutsBlock \/ Strips \/ Disallows \/ DropsBlock

\* Settings that do not parse; a write that is refused, or that fails after the rename
fail ==
    /\ run.pc \in Installing \cup Reversing \cup {"strip"}
    /\ \/ /\ run.pc \in ReadsSettings /\ ~settings.parses
          /\ UNCHANGED <<files, spent>>
       \/ /\ spent.faults < MaxFaults /\ spent' = [spent EXCEPT !.faults = @ + 1]
          /\ UNCHANGED files \/ Renamed
    /\ run' = OnError /\ Say("failed") /\ UNCHANGED user

-----------------------------------------------------------------------------
(* The agent with an extension file *)

Replaceable(a) == a = "absent" \/ a \in Versions

\* owned_asset_state; a file that is not ours, or not as we wrote it, is a conflict.
look ==
    /\ At("look")
    /\ run' = IF Replaceable(asset)
              THEN [run EXCEPT !.pc = IF run.kind = "uninstall" THEN "remove" ELSE "check",
                               !.seen = asset, !.edits = spent.edits]
              ELSE NoRun
    /\ UNCHANGED <<files, report, user, spent>>

\* write_owned_asset: the temporary file is written, then the state is read again
StateOf(a) == IF a \in Versions THEN "present" ELSE a

\* Mutant: the file is not read again
UnchangedUnread == TRUE

Unchanged == StateOf(asset) = StateOf(run.seen)

check ==
    /\ At("check")
    /\ run' = IF Unchanged THEN [run EXCEPT !.pc = "publish", !.edits = spent.edits] ELSE NoRun
    /\ UNCHANGED <<files, report, user, spent>>

\* hard_link fails on an existing file.
Linkable == asset = "absent"

Published ==
    /\ asset' = IF run.seen = "absent" /\ ~Linkable THEN asset ELSE run.version
    /\ UNCHANGED <<settings, skill, notes>>

publish ==
    /\ At("publish") /\ Published
    /\ run' = NoRun /\ UNCHANGED <<report, user, spent>>

remove ==
    /\ At("remove")
    /\ asset' = IF run.seen = "absent" THEN asset ELSE "absent"
    /\ run' = NoRun
    /\ UNCHANGED <<settings, skill, notes, report, user, spent>>

\* The extension's write or removal is refused, or the sync after it fails.
asset_fails ==
    /\ run.pc \in {"look", "check", "publish", "remove"} /\ spent.faults < MaxFaults
    /\ UNCHANGED files \/ (At("publish") /\ Published)
    /\ run' = NoRun
    /\ spent' = [spent EXCEPT !.faults = @ + 1]
    /\ UNCHANGED <<report, user>>

\* The process is killed: files stay as the last rename left them.
killed ==
    /\ run # NoRun /\ spent.faults < MaxFaults
    /\ run' = NoRun /\ Say("died")
    /\ spent' = [spent EXCEPT !.faults = @ + 1]
    /\ UNCHANGED <<files, user>>

-----------------------------------------------------------------------------
(* The user *)

Edits == spent.edits < MaxEdits /\ spent' = [spent EXCEPT !.edits = @ + 1]

add_hook(e) ==
    /\ Edits /\ settings.parses /\ settings.hooks = "lists"
    /\ settings' = [settings EXCEPT !.groups[e] = Append(@, "user")]
    /\ user' = [user EXCEPT !.groups[e] = @ + 1]
    /\ UNCHANGED <<skill, notes, asset, run, report>>

\* A slip of the editor, and its repair
break_settings ==
    /\ Edits /\ settings' = [settings EXCEPT !.parses = ~@]
    /\ UNCHANGED <<skill, notes, asset, run, report, user>>

add_note ==
    /\ Edits /\ notes' = Append(notes, "user")
    /\ user' = [user EXCEPT !.notes = @ + 1]
    /\ UNCHANGED <<settings, skill, asset, run, report>>

edit_asset ==
    /\ Edits /\ asset' \in {IF asset \in Versions THEN "drifted" ELSE "user", "absent"} \ {asset}
    /\ UNCHANGED <<settings, skill, notes, run, report, user>>

-----------------------------------------------------------------------------
Helpers ==
    \/ not_found \/ merge_into_file \/ ensure_allow_entries \/ write_managed_file
    \/ ensure_text_block \/ uninstall_file \/ remove_allow_entries \/ remove_managed_file
    \/ remove_text_block \/ look \/ check \/ publish \/ remove
    \/ fail \/ asset_fails

InstallNext ==
    \/ \E kind \in {"install", "uninstall"}, v \in Versions : start(kind, v)
    \/ Helpers \/ killed
    \/ \E e \in Events : add_hook(e)
    \/ break_settings \/ add_note \/ edit_asset

InstallSpec == InstallInit /\ [][InstallNext]_installvars

-----------------------------------------------------------------------------
(* Properties *)

\* Entries some version manages
Managed == UNION {AllowEntries[v] : v \in Versions}

\* Nothing of ours is left, but for entries that only other versions had in their list.
Gone ==
    /\ \A e \in Events : Ours(settings.groups[e]) = <<>>
    /\ settings.allow \cap AllowEntries[report.by] = {}
    /\ skill = "absent" /\ Ours(notes) = <<>>

\* Nothing of the user's is missing from a file, in the middle of a run, after a failed one
\* or after a death ("the user's own keys and hooks are never touched"), and nothing of ours
\* is beside it twice (merge_value, ensure_text_block).  Two things are excepted, which the
\* code does take: a hooks value that is a scalar, and a permission equal to one of ours.
UserContentKept ==
    /\ \A e \in Events : /\ Len(Theirs(settings.groups[e])) = user.groups[e]
                         /\ Len(Ours(settings.groups[e])) <= 1
    /\ Len(Theirs(notes)) = user.notes /\ Len(Ours(notes)) <= 1
    /\ user.hooks = "container" => settings.hooks = "container"
    /\ user.allow \ Managed \subseteq settings.allow

\* What a run reports of the first agent is so.  Removed: of hook groups, skill and text
\* block nothing of any version is left, and of the permissions nothing that the version
\* which reports lists, whatever half of an install or of a rollback earlier runs left
\* behind (run_uninstall).  A failed install: the same, of the install it was upgrading
\* too, unless the rollback failed: "a partial install never leaves a half-configured tree".
ReportTellsTruth ==
    /\ report.said = "removed" => Gone
    /\ report.said = "failed" /\ run.kind # "uninstall" /\ At("look") /\ ~run.botched => Gone

\* The installer takes away or replaces an extension the user wrote or changed only if
\* its last look saw one of ours and the edit came after; a file the user put where
\* there was none always stays (write_owned_asset, remove_owned_asset).
UserAssetKept ==
    [][run' # run /\ asset' # asset /\ asset \in {"user", "drifted"} =>
          run.seen \in Versions /\ run.edits < spent.edits]_installvars
=============================================================================

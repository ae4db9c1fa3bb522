------------------------------ MODULE Backlog ------------------------------
(***************************************************************************)
(* The cross-session backlog of one project: a JSON file that several      *)
(* sessions change through the backlog command line (hooks/shared/         *)
(* backlog.py), that users edit by hand, and that `repair` moves aside.    *)
(*                                                                         *)
(* Every process takes the file's steps one system call at a time: test    *)
(* that it exists, read its bytes (the baseline), read it again to parse   *)
(* it, edit the copy, compare the bytes with the baseline, replace the     *)
(* file.  There is no lock, so any of those steps may be followed by       *)
(* somebody else's.                                                        *)
(***************************************************************************)
EXTENDS Naturals, FiniteSets

CONSTANTS Sessions,    \* processes of the command line
          Items,       \* item ids
          MaxVersion   \* bound: how often the file's content changes

ASSUME ItemsAssumption == Items # {}
ASSUME MaxVersionAssumption == MaxVersion \in Nat

VARIABLES
  file,      \* what is at the path
  locked,    \* the file's bytes cannot be read
  aside,     \* the copies that repair moved aside
  version,   \* number of contents the file has had
  pc, cmd,   \* per session: the next step and the command it runs
  base,      \* per session: the bytes stashed under _BASELINE_KEY
  data,      \* per session: the document it loaded
  stale,     \* history: sessions whose last look at the file is out of date
  intent,    \* history: <<item, version>> of the writes in force
  overtaken  \* history: the ones replaced by a session in stale

fileVars == <<file, locked, aside, version>>
procVars == <<pc, cmd, base, data>>
history  == <<stale, intent, overtaken>>
vars     == <<fileVars, procVars, history>>

Versions == 0 .. MaxVersion
Forms    == {"absent", "good", "odd", "corrupt"}
Kinds    == {"show", "add", "set", "repair"}
Steps    == {"idle", "exists", "baseline", "parse", "edit", "compare",
             "replace", "probe", "rename"}

\* A content of the file.  An item's value is the version that wrote it, 0 when
\* there is no such item; "odd" parses but does not conform; a corrupt text
\* still holds what was in it for whoever looks.
Doc == [form : Forms, items : [Items -> Versions], ver : Versions]

Absent == [form |-> "absent", items |-> [i \in Items |-> 0], ver |-> 0]

NoCommand == [kind |-> "show", item |-> CHOOSE i \in Items : TRUE,
              force |-> FALSE]

Exists   == file.form # "absent"
Readable == Exists /\ ~locked
BytesNow == IF Readable THEN file ELSE Absent

TypeOK ==
  /\ file \in Doc /\ aside \subseteq Doc
  /\ locked \in BOOLEAN /\ (locked => Exists)
  /\ version \in Versions
  /\ pc \in [Sessions -> Steps]
  /\ cmd \in [Sessions -> [kind : Kinds, item : Items, force : BOOLEAN]]
  /\ base \in [Sessions -> Doc]
  /\ data \in [Sessions -> Doc]
  /\ stale \subseteq Sessions
  /\ intent \subseteq Items \X Versions
  /\ overtaken \subseteq Items \X Versions

Init ==
  /\ file = Absent /\ locked = FALSE /\ aside = {} /\ version = 0
  /\ pc = [s \in Sessions |-> "idle"]
  /\ cmd = [s \in Sessions |-> NoCommand]
  /\ base = [s \in Sessions |-> Absent]
  /\ data = [s \in Sessions |-> Absent]
  /\ stale = {} /\ intent = {} /\ overtaken = {}

Goto(s, step) == pc' = [pc EXCEPT ![s] = step]

\* The command ends, with whatever it printed; what it held in memory is gone.
End(s) ==
  /\ Goto(s, "idle")
  /\ cmd' = [cmd EXCEPT ![s] = NoCommand]
  /\ base' = [base EXCEPT ![s] = Absent]
  /\ data' = [data EXCEPT ![s] = Absent]
  /\ stale' = stale \ {s}

\* What the file was when the others looked is no longer what it is.
Overtakes(s) ==
  {t \in Sessions \ {s} : pc[t] \in {"replace", "rename"}}

----------------------------------------------------------------------------
Start(s) ==
  /\ pc[s] = "idle"
  /\ \E c \in [kind : Kinds, item : Items, force : BOOLEAN] :
       /\ c.kind # "repair" => ~c.force
       /\ c.kind \in {"show", "repair"} => c.item = NoCommand.item
       /\ cmd' = [cmd EXCEPT ![s] = c]
  /\ Goto(s, "exists")
  /\ UNCHANGED <<fileVars, base, data, history>>

\* load_or_create and _handle_repair both begin with path.exists().
FindMissing(s) ==
  /\ pc[s] = "exists" /\ ~Exists
  /\ IF cmd[s].kind = "repair"
     THEN End(s)
     ELSE /\ data' = [data EXCEPT ![s] = [Absent EXCEPT !.form = "good"]]
          /\ base' = [base EXCEPT ![s] = Absent]
          /\ Goto(s, "edit")
          /\ UNCHANGED <<cmd, stale>>
  /\ UNCHANGED <<fileVars, intent, overtaken>>

FindPresent(s) ==
  /\ pc[s] = "exists" /\ Exists
  /\ Goto(s, IF cmd[s].kind = "repair" THEN "probe" ELSE "baseline")
  /\ UNCHANGED <<fileVars, cmd, base, data, history>>

\* _bytes_now: None when the bytes cannot be read.
ReadBaseline(s) ==
  /\ pc[s] = "baseline"
  /\ base' = [base EXCEPT ![s] = BytesNow]
  /\ Goto(s, "parse")
  /\ UNCHANGED <<fileVars, cmd, data, history>>

\* read_json: a second read of the file.  Unreadable and corrupt files end the
\* command; a file that only fails to conform is loaded.
ReadJson(s) ==
  /\ pc[s] = "parse"
  /\ IF Readable /\ file.form # "corrupt"
     THEN /\ data' = [data EXCEPT ![s] = file]
          /\ Goto(s, "edit")
          /\ UNCHANGED <<cmd, base, stale>>
     ELSE End(s)
  /\ UNCHANGED <<fileVars, intent, overtaken>>

\* add_item takes an id unused in the loaded copy, update_item an item found
\* in it.  A document that does not conform is refused by validate, unless the
\* very field that was set is what did not conform.
CanEdit(s) ==
  \/ cmd[s].kind = "add" /\ data[s].items[cmd[s].item] = 0
                         /\ data[s].form = "good"
  \/ cmd[s].kind = "set" /\ data[s].items[cmd[s].item] # 0

Edit(s) ==
  /\ pc[s] = "edit" /\ CanEdit(s)
  /\ data' = [data EXCEPT ![s].form = "good"]
  /\ Goto(s, "compare")
  /\ UNCHANGED <<fileVars, cmd, base, history>>

\* show; an id that is not there; problems found by validate.
EndWithoutSaving(s) ==
  /\ pc[s] = "edit"
  /\ CanEdit(s) => data[s].form = "odd"
  /\ End(s)
  /\ UNCHANGED <<fileVars, intent, overtaken>>

\* Mutant: save replaces the file without comparing it.
CompareNothing(s) ==
  /\ pc[s] = "compare"
  /\ Goto(s, "replace")
  /\ stale' = stale \ {s}
  /\ UNCHANGED <<fileVars, cmd, base, data, intent, overtaken>>

\* save's compare step.  An unreadable file and an absent one both read as
\* None: the comparison then says nothing about what is there.
Compare(s) ==
  /\ pc[s] = "compare"
  /\ IF BytesNow # base[s]
     THEN End(s)
     ELSE /\ Goto(s, "replace")
          /\ stale' = IF locked THEN stale \cup {s} ELSE stale \ {s}
          /\ UNCHANGED <<cmd, base, data>>
  /\ UNCHANGED <<fileVars, intent, overtaken>>

InFile == {p \in Items \X Versions : p[2] # 0 /\ file.items[p[1]] = p[2]}

\* save's os.replace.  The write supersedes the value its session had seen.
Replace(s) ==
  LET i == cmd[s].item
      v == version + 1
  IN /\ pc[s] = "replace" /\ version < MaxVersion
     /\ version' = v
     /\ file' = [data[s] EXCEPT !.items[i] = v, !.ver = v]
     /\ locked' = FALSE
     /\ intent' = (intent \ {<<i, data[s].items[i]>>}) \cup {<<i, v>>}
     /\ overtaken' = IF s \in stale THEN overtaken \cup InFile ELSE overtaken
     /\ Goto(s, "idle")
     /\ cmd' = [cmd EXCEPT ![s] = NoCommand]
     /\ base' = [base EXCEPT ![s] = Absent]
     /\ data' = [data EXCEPT ![s] = Absent]
     /\ stale' = (stale \ {s}) \cup Overtakes(s)
     /\ UNCHANGED <<aside>>

\* Mutant: a file whose bytes cannot be read counts as corrupt.
ProbeUnread(s) ==
  /\ pc[s] = "probe"
  /\ IF cmd[s].force \/ ~Readable \/ file.form = "corrupt"
     THEN /\ Goto(s, "rename")
          /\ stale' = stale \ {s}
          /\ UNCHANGED <<cmd, base, data>>
     ELSE End(s)
  /\ UNCHANGED <<fileVars, intent, overtaken>>

\* repair's probe with read_json: corrupt goes on; readable, and unreadable,
\* only under --force.
Probe(s) ==
  /\ pc[s] = "probe"
  /\ IF cmd[s].force \/ (Readable /\ file.form = "corrupt")
     THEN /\ Goto(s, "rename")
          /\ stale' = stale \ {s}
          /\ UNCHANGED <<cmd, base, data>>
     ELSE End(s)
  /\ UNCHANGED <<fileVars, intent, overtaken>>

\* repair's path.rename: the copy keeps its bytes under a name of its own.
Rename(s) ==
  /\ pc[s] = "rename" /\ Exists
  /\ aside' = aside \cup {file}
  /\ file' = Absent /\ locked' = FALSE
  /\ Goto(s, "idle")
  /\ cmd' = [cmd EXCEPT ![s] = NoCommand]
  /\ stale' = (stale \ {s}) \cup Overtakes(s)
  /\ UNCHANGED <<version, base, data, intent, overtaken>>

\* The process dies, git or the disk fails, or repair finds the file gone: the
\* exception leaves the file alone (save unlinks its temporary file).
Fail(s) ==
  /\ pc[s] # "idle"
  /\ End(s)
  /\ UNCHANGED <<fileVars, intent, overtaken>>

----------------------------------------------------------------------------
\* What others do: a user's editor spoils or mends the file, its permissions
\* change.
HandEdit ==
  /\ Readable /\ version < MaxVersion
  /\ \E form \in Forms \ {"absent", file.form} :
       file' = [file EXCEPT !.form = form, !.ver = version + 1]
  /\ version' = version + 1
  /\ stale' = stale \cup {t \in Sessions : pc[t] \in {"replace", "rename"}}
  /\ UNCHANGED <<locked, aside, procVars, intent, overtaken>>

Chmod ==
  /\ Exists
  /\ locked' = ~locked
  /\ stale' = stale \cup {t \in Sessions : pc[t] = "rename"}
  /\ UNCHANGED <<file, aside, version, procVars, intent, overtaken>>

Next ==
  \/ \E s \in Sessions :
       \/ Start(s) \/ FindMissing(s) \/ FindPresent(s) \/ ReadBaseline(s)
       \/ ReadJson(s) \/ Edit(s) \/ EndWithoutSaving(s) \/ Compare(s)
       \/ Replace(s) \/ Probe(s) \/ Rename(s) \/ Fail(s)
  \/ HandEdit \/ Chmod

Spec == Init /\ [][Next]_vars

----------------------------------------------------------------------------
\* Every write that was reported as done, and that no later write knowingly
\* superseded, is in the file or in a copy moved aside - or was there when a
\* session replaced the file although it had changed, or had been unreadable,
\* since that session compared it.  The comparison in save, and the order of
\* its two reads in load_or_create, narrow the loss to that one step.
Kept ==
  \A p \in intent : \/ file.items[p[1]] = p[2]
                    \/ \E copy \in aside : copy.items[p[1]] = p[2]
                    \/ p \in overtaken

\* repair without --force moves only a file that is there to be read and is
\* corrupt, unless the file changed after it was probed.
RepairSparesReadable ==
  [][\A s \in Sessions :
       (Rename(s) /\ ~cmd[s].force /\ s \notin stale)
          => Readable /\ file.form = "corrupt"]_vars

=============================================================================

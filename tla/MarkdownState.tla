----------------------------- MODULE MarkdownState -----------------------------
(***************************************************************************)
(* The records as text.  STATE.md and PROJECT_STATUS.md hold a block of    *)
(* YAML lines that two writers edit line by line, each with its own way to *)
(* write a value: markdown_state.py for the relay helper and the Runner,   *)
(* workflow_state.py for replace-agent.  One parser reads what both wrote. *)
(* Beside them execution.md, where every delivery adds a section.  A text  *)
(* is a token of one of the classes that the code's patterns tell apart.   *)
(***************************************************************************)
EXTENDS SequencesExt

CONSTANTS
  Numbers,        \* strings of digits, with a sign or without
  Phrases,        \* texts with a character outside the pattern of a bare value
  Bracketed,      \* phrases that begin with a bracket and are not JSON
  Tasks,          \* tasks of the project
  Plain,          \* kind of document -> keys with a value on their line
  Sections,       \* kind of document -> keys with a section under them
  Templates,      \* kind of document -> its lines to begin with
  RelayOperations,   \* kind of document -> operations of the store and of the relay helper
  HelperOperations,  \* kind of document -> operations of replace-agent
  Rest,           \* operation named below -> what it writes besides
  Deliveries,     \* delivery ids the Implementer may give
  Runs,           \* ids of the Implementer's runs
  WakeKeys,       \* wake keys the Reporting coordinator may give
  Nothing         \* no key, no section, no value

\* A value, and what stands for it in a line; items: those of an inline list, or
\* the fields of a mapping on one line.
Value(type, text, items) == [type |-> type, text |-> text, items |-> items]
Null == Value("null", "null", <<>>)
Str(text) == Value("str", text, <<>>)
Number(text) == Value("int", text, <<>>)
List(items) == Value("list", "[", items)
Object(fields) == Value("object", "mapping", fields)
Mapping == Value("map", "", <<>>)
FormatError == Value("error", "", <<>>)

Raw(quoted, text, items) == [quoted |-> quoted, text |-> text, items |-> items]
Bare(text) == Raw(FALSE, text, <<>>)
Quoted(text) == Raw(TRUE, text, <<>>)
Inline(items) == Raw(FALSE, "[", items)

\* A line is the header of a section, an entry of the block or of the section
\* above it, or a remark: a comment or an empty line at column 0.
Header(key) == [level |-> "header", key |-> key, raw |-> Nothing]
Entry(key, raw) == [level |-> "root", key |-> key, raw |-> raw]
Nested(key, raw) == [level |-> "nested", key |-> key, raw |-> raw]
Remark == [level |-> "remark", key |-> Nothing, raw |-> Nothing]

---------------------------------------------------------------------------
(* Reading: parse_fenced_yaml.                                             *)

ParseValue(raw) ==
  CASE raw.quoted -> Str(raw.text)
    [] ~raw.quoted /\ raw.text \in {"null", "~"} -> Null
    [] ~raw.quoted /\ raw.text \in {"true", "false"} -> Value("bool", raw.text, <<>>)
    [] ~raw.quoted /\ raw.text \in Numbers -> Number(raw.text)
    [] ~raw.quoted /\ raw.text = "[" -> List(raw.items)
    [] ~raw.quoted /\ raw.text = "mapping" -> Object(raw.items)
    [] ~raw.quoted /\ raw.text \in Bracketed -> FormatError
    [] OTHER -> Str(raw.text)

With(data, path, value) ==
  [p \in DOMAIN data \cup {path} |-> IF p = path THEN value ELSE data[p]]

\* A key at column 0 replaces what stood under the key before.
Without(data, key) == Restrict(data, {p \in DOMAIN data : p[1] # key})

ParseLine(parsed, line) ==
  CASE line.level = "remark" -> parsed
    [] line.level = "header" ->
         [parsed EXCEPT !.section = line.key,
                        !.data = With(Without(@, line.key), <<line.key>>, Mapping)]
    [] line.level = "root" ->
         [parsed EXCEPT !.section = Nothing,
                        !.data = With(Without(@, line.key), <<line.key>>, ParseValue(line.raw))]
    [] line.level = "nested" /\ parsed.section # Nothing ->
         [parsed EXCEPT !.data = With(@, <<parsed.section, line.key>>, ParseValue(line.raw))]
    [] OTHER -> [parsed EXCEPT !.ok = FALSE]

\* ok: every line is in its place.  A StateFormatError of a value is a value here.
Readings(lines) ==
  LET read[n \in 0..Len(lines)] ==
        IF n = 0 THEN [ok |-> TRUE, section |-> Nothing, data |-> <<>>]
        ELSE ParseLine(read[n - 1], lines[n])
  IN read

Parse(lines) == Readings(lines)[Len(lines)]

---------------------------------------------------------------------------
(* The relay helper's writer: markdown_state.py.                           *)

\* Mutant: no value is quoted.
FormatValueBare(value) == Raw(FALSE, value.text, value.items)

\* Digits, null, true and false are in the pattern of a bare value, whatever their type.
FormatValue(value) ==
  Raw(value.type = "str" /\ value.text \in Phrases, value.text, value.items)

\* The first line of a key at column 0, or 0.
First(positions) == IF positions = {} THEN 0 ELSE Min(positions)

RootLine(lines, key) ==
  First({i \in 1..Len(lines) : lines[i].level \in {"header", "root"} /\ lines[i].key = key})

SectionLine(lines, section) ==
  First({i \in 1..Len(lines) : lines[i].level = "header" /\ lines[i].key = section})

\* The last line of the section that begins at line i: the first remark ends it.
SectionEnd(lines, i) ==
  CHOOSE j \in i..Len(lines) :
    /\ \A k \in (i + 1)..j : lines[k].level = "nested"
    /\ j < Len(lines) => lines[j + 1].level # "nested"

\* The line over the last one of its key in the section, or at its end.
PutInSection(lines, i, line) ==
  LET own == {j \in (i + 1)..SectionEnd(lines, i) : lines[j].key = line.key}
  IN IF own = {} THEN InsertAt(lines, SectionEnd(lines, i) + 1, line)
     ELSE ReplaceAt(lines, Max(own), line)

PutAtRoot(lines, line) ==
  LET i == RootLine(lines, line.key)
  IN IF i = 0 THEN Append(lines, line) ELSE ReplaceAt(lines, i, line)

SetYamlValue(lines, path, value) ==
  IF Len(path) = 1 THEN PutAtRoot(lines, Entry(path[1], FormatValue(value)))
  ELSE LET i == SectionLine(lines, path[1])
           line == Nested(path[2], FormatValue(value))
       IN IF i = 0 THEN lines \o <<Header(path[1]), line>> ELSE PutInSection(lines, i, line)

---------------------------------------------------------------------------
(* replace-agent's writer: workflow_state.py.                              *)

Enumerated ==
  {"idle", "running", "paused", "active", "standby", "retired", "UNSELECTED", "USE", "DO_NOT_USE"}

Quote(value) ==
  Raw(value.type = "str" /\ value.text \notin Enumerated, value.text, value.items)

SetScalar(lines, key, value) == PutAtRoot(lines, Entry(key, Quote(value)))

\* A new section goes behind the section named by after, if there is one.
SetNested(lines, section, key, value, after) ==
  LET i == SectionLine(lines, section)
      a == SectionLine(lines, after)
      place == IF a = 0 THEN Len(lines) ELSE SectionEnd(lines, a)
      line == Nested(key, Quote(value))
  IN IF i # 0 THEN PutInSection(lines, i, line)
     ELSE SubSeq(lines, 1, place) \o <<Header(section), line>>
          \o SubSeq(lines, place + 1, Len(lines))

---------------------------------------------------------------------------
(* The operations: each writes its values one after the other into the     *)
(* text it read and replaces the file by the result.                       *)

\* What is written, and the section a new one of replace-agent goes behind.
Write(path, value) == [path |-> path, value |-> value, after |-> Nothing]
WriteAfter(path, value, section) == [path |-> path, value |-> value, after |-> section]

PutValue(hand, lines, w) ==
  CASE hand = "relay" -> SetYamlValue(lines, w.path, w.value)
    [] hand = "helper" /\ Len(w.path) = 1 -> SetScalar(lines, w.path[1], w.value)
    [] hand = "helper" /\ Len(w.path) = 2 ->
         SetNested(lines, w.path[1], w.path[2], w.value, w.after)

Texts(hand, lines, writes) ==
  LET text[n \in 0..Len(writes)] ==
        IF n = 0 THEN lines ELSE PutValue(hand, text[n - 1], writes[n])
  IN text

Written(hand, lines, writes) == Texts(hand, lines, writes)[Len(writes)]

\* A value, and who wrote it.
Meant(hand, value) == [by |-> hand, value |-> value]

\* What a write means: the key has the value, or the field of the mapping the key holds
\* on its line; a key that holds neither a section nor a mapping begins a section.
Put(meant, hand, w) ==
  LET key == <<w.path[1]>>
      Holds(type) == key \in DOMAIN meant /\ meant[key].value.type = type
      fields == meant[key].value.items
  IN CASE Len(w.path) = 1 \/ Holds("map") -> With(meant, w.path, Meant(hand, w.value))
       [] Len(w.path) # 1 /\ Holds("object") ->
            With(meant, key, Meant(hand, Object(With(fields, w.path[2], w.value.text))))
       [] OTHER -> With(With(Without(meant, w.path[1]), key, Meant(hand, Mapping)),
                        w.path, Meant(hand, w.value))

Records(meant, hand, writes) ==
  LET stored[n \in 0..Len(writes)] ==
        IF n = 0 THEN meant ELSE Put(stored[n - 1], hand, writes[n])
  IN stored

Recorded(meant, hand, writes) == Records(meant, hand, writes)[Len(writes)]

---------------------------------------------------------------------------
(* What the operations write, and the documents they begin with.           *)

\* Texts that the parser takes for something else when they are not quoted; the relay
\* helper quotes those that are no bare values.
BareWords == {"null", "true", "false"}
Words == BareWords \cup {"~", "[", "mapping"}
Misread == Numbers \cup Bracketed \cup Words

\* How a value is read that somebody wrote: the relay helper's digits, null, true and
\* false come back as another type.
Understood(hand, value) ==
  CASE hand = "relay" /\ value.type = "str" /\ value.text \in Numbers -> Number(value.text)
    [] hand = "relay" /\ value.type = "str" /\ value.text = "null" -> Null
    [] hand = "relay" /\ value.type = "str" /\ value.text \in {"true", "false"} ->
         Value("bool", value.text, <<>>)
    [] OTHER -> value

\* The values a writer is given: any text, and what the operations compute.
Storable(hand, value) ==
  \/ value = Null
  \/ \E digits \in Numbers : value = Number(digits)
  \/ value = Str(value.text)
  \/ hand = "relay" /\ value = List(value.items)
  \/ hand = "relay" /\ value = Object(value.items)

\* The write is of a key on its line, or of one in a section.
Fits(w, plain, sections) ==
  \/ Len(w.path) = 1 /\ w.path = <<w.path[1]>> /\ w.path[1] \in plain
  \/ Len(w.path) = 2 /\ w.path = <<w.path[1], w.path[2]>> /\ w.path[1] \in sections

AllFit(hand, writes, plain, sections) ==
  /\ writes \in Seq(ToSet(writes))
  /\ \A i \in DOMAIN writes :
       Fits(writes[i], plain, sections) /\ Storable(hand, writes[i].value)

\* Every key stands once, under column 0 there are only lines of a section.
IsTemplate(lines, plain, sections) ==
  /\ lines \in Seq(ToSet(lines))
  /\ \A i \in DOMAIN lines :
       /\ lines[i].level \in {"header", "root", "nested", "remark"}
       /\ lines[i].level = "root" => lines[i].key \in plain
       /\ lines[i].level = "header" => lines[i].key \in sections
       /\ lines[i].level = "nested" => i > 1 /\ lines[i - 1].level \in {"header", "nested"}
  /\ \A i, j \in DOMAIN lines :
       lines[i].level \in {"header", "root"} /\ lines[j].level \in {"header", "root"}
         /\ lines[i].key = lines[j].key => i = j

QueueKeys == {"active", "queued", "blocked", "completed"}

\* validate_project_state and validate_active_task_mirror; only a task that was
\* completed while it was put aside may be in a second list.
ValidIndex(data, early) ==
  LET tasks(key) == data[<<"tasks", key>>].items
  IN /\ \A key \in QueueKeys : IsInjective(tasks(key))
     /\ \A j, k \in QueueKeys : j # k =>
          ToSet(tasks(j)) \cap ToSet(tasks(k)) \subseteq IF "completed" \in {j, k} THEN early ELSE {}
     /\ Len(tasks("active")) <= 1
     /\ data[<<"active_task">>] = IF tasks("active") = <<>> THEN Null
                                  ELSE Str(tasks("active")[1])

\* The index has its four lists, of tasks.
HasLists(data) ==
  /\ <<"tasks">> \in DOMAIN data /\ data[<<"tasks">>] = Mapping
  /\ <<"active_task">> \in DOMAIN data
  /\ \A key \in QueueKeys : /\ <<"tasks", key>> \in DOMAIN data
                            /\ data[<<"tasks", key>>] = List(data[<<"tasks", key>>].items)
                            /\ data[<<"tasks", key>>].items \in Seq(Tasks)

\* A task's id is a word, TASK-YYYYMMDD-NNN.
ASSUME TextAssumption ==
  /\ Bracketed \cup (Words \ BareWords) \subseteq Phrases
  /\ (Numbers \cup BareWords) \cap Phrases = {} /\ Numbers \cap Words = {}
  /\ Bracketed \cap Words = {} /\ Enumerated \cap Misread = {}
  /\ ({"DONE", "completed"} \cup Tasks) \cap (Numbers \cup BareWords) = {}
  /\ Nothing \notin Deliveries

\* A key is always on its line, or always the head of a section.
ASSUME KeyAssumption ==
  /\ DOMAIN Plain = DOMAIN Templates /\ DOMAIN Sections = DOMAIN Templates
  /\ \A k \in DOMAIN Templates :
       /\ Plain[k] \cap Sections[k] = {} /\ Nothing \notin Plain[k] \cup Sections[k]
       /\ IF k = "index" THEN "active_task" \in Plain[k] /\ "tasks" \in Sections[k]
          ELSE {"status", "reporting", "delivery_id"} \subseteq Plain[k]
       /\ IsTemplate(Templates[k], Plain[k], Sections[k])
  /\ "index" \in DOMAIN Templates =>
       LET data == Parse(Templates["index"]).data IN HasLists(data) /\ ValidIndex(data, {})

\* No operation but those named below is of the STATE.md of a task that is done.
ASSUME OperationAssumption ==
  /\ \A k \in DOMAIN Templates :
       /\ \A op \in RelayOperations[k] : AllFit("relay", op.writes, Plain[k], Sections[k])
       /\ \A op \in HelperOperations[k] : AllFit("helper", op.writes, Plain[k], Sections[k])
       /\ \A name \in {"deliver", "wake", "phase", "report", "reported"} :
            k # "index" => AllFit("relay", Rest[name], Plain[k], Sections[k])
       /\ \A op \in RelayOperations[k] \cup HelperOperations[k] :
            IF k = "index"
            THEN \A i \in DOMAIN op.writes : op.writes[i].path[1] \notin {"active_task", "tasks"}
            ELSE <<"status">> \in DOMAIN op.when /\ Str("DONE") \notin op.when[<<"status">>]
  /\ \A name \in {"report", "reported"} : \A i \in DOMAIN Rest[name] :
       Rest[name][i].path[1] \notin {"status", "reporting"}

---------------------------------------------------------------------------
(* The state.                                                              *)

VARIABLES
  kind,        \* which document it is
  doc,         \* its lines
  execution,   \* delivery_id of every section of execution.md
  record,      \* history: path -> the value that was meant last, and by whom
  delivered,   \* history: the delivery handed over last, or Nothing
  early        \* history: tasks completed while they were put aside

vars == <<kind, doc, execution, record, delivered, early>>

\* What the file held is meant as it is read.
Init ==
  /\ kind \in DOMAIN Templates
  /\ doc = Templates[kind]
  /\ LET data == Parse(doc).data IN record = [p \in DOMAIN data |-> Meant("file", data[p])]
  /\ execution = <<>>
  /\ delivered = Nothing
  /\ early = {}

Reads == Parse(doc).data
Has(key, value) == <<key>> \in DOMAIN Reads /\ Reads[<<key>>] = value

\* A caller compares what it is given, a text, with what it reads.
IsText(path) == path \in DOMAIN Reads /\ Reads[path].type = "str"

Store(hand, writes) ==
  /\ doc' = Written(hand, doc, writes)
  /\ record' = Recorded(record, hand, writes)
  /\ UNCHANGED kind

RelayWrite(writes) == Store("relay", writes) /\ UNCHANGED <<execution, delivered, early>>

\* What the operation requires of the values it reads.
Admitted(op) ==
  LET data == Reads
  IN \A path \in DOMAIN op.when : path \in DOMAIN data /\ data[path] \in op.when[path]

\* An operation of the store or of the relay helper.
RelayOperation(op) == Admitted(op) /\ RelayWrite(op.writes)

\* replace-agent.
HelperOperation(op) ==
  Admitted(op) /\ Store("helper", op.writes) /\ UNCHANGED <<execution, delivered, early>>

\* The delivery_id implementation-done finds: that of the first section.
DeliveryIn(sections) == Head(sections)

\* The Implementer adds a section with a new delivery_id to execution.md and calls
\* implementation-done.
Deliver(id) ==
  /\ kind # "index" /\ Has("status", Str("IMPLEMENTING"))
  /\ IsText(<<"current_participant">>) /\ \E run \in Runs : Has("run_id", Str(run))
  /\ \A i \in DOMAIN execution : execution[i] # id
  /\ execution' = Append(execution, id)
  /\ delivered' = id
  /\ Store("relay", Append(Rest["deliver"],
                           Write(<<"delivery_id">>, Str(DeliveryIn(execution')))))
  /\ UNCHANGED early

\* The fields of reporting while it is a mapping on one line.
ReportingFields == [phase : {"pending", "submitted", "active"}, wake_key : WakeKeys]

\* prepare_reporting_wake: reporting becomes a mapping on one line.
Wake(key) ==
  /\ kind # "index" /\ Has("status", Str("REPORTING")) /\ IsText(<<"current_participant">>)
  /\ \A fields \in ReportingFields : ~Has("reporting", Object(fields))
  /\ RelayWrite(<<Write(<<"reporting">>, Object([phase |-> "pending", wake_key |-> key]))>>
                \o Rest["wake"])

\* set_reporting_phase.
SetPhase(fields, phase) ==
  /\ kind # "index" /\ Has("reporting", Object(fields))
  /\ RelayWrite(<<Write(<<"reporting">>, Object([fields EXCEPT !.phase = phase]))>>
                \o Rest["phase"])

\* complete_report, for the task's record: the phase has a line of its own.
Report(fields) ==
  /\ kind # "index" /\ Has("status", Str("REPORTING")) /\ Has("reporting", Object(fields))
  /\ IsText(<<"delivery_id">>) /\ IsText(<<"review_ref">>) /\ IsText(<<"current_participant">>)
  /\ Has("current_participant", Reads[<<"assignments", "planner">>])
  /\ RelayWrite(<<Write(<<"status">>, Str("DONE"))>>
                \o (Rest["report"] \o <<Write(<<"reporting", "phase">>, Str("completed"))>>
                    \o Rest["reported"]))

---------------------------------------------------------------------------
(* The project index: PROJECT_STATUS.md.                                   *)

\* An operation on the index writes what it makes of the index it reads.
IndexWrite(writes) == kind = "index" /\ Store("relay", writes) /\ UNCHANGED <<execution, delivered>>

TaskList(key) == Reads[<<"tasks", key>>].items
ActiveTask == Reads[<<"active_task">>]

PutAside(task) == \E key \in {"queued", "blocked"} : task \in ToSet(TaskList(key))
Completed(task) == early' = IF PutAside(task) THEN early \cup {task} ELSE early

\* The list without the task.
Remaining(list, task) ==
  LET rest[n \in 0..Len(list)] ==
        IF n = 0 THEN <<>>
        ELSE IF list[n] = task THEN rest[n - 1] ELSE Append(rest[n - 1], list[n])
  IN rest

Others(list, task) == Remaining(list, task)[Len(list)]

AlsoIn(list, task) == IF task \in ToSet(list) THEN list ELSE Append(list, task)

\* Mutant: the mirror of the active task is forgotten.
CompleteUnmirrored(task) ==
  /\ IndexWrite(<<Write(<<"tasks", "active">>, List(Others(TaskList("active"), task))),
                  Write(<<"tasks", "completed">>, List(AlsoIn(TaskList("completed"), task)))>>)
  /\ Completed(task)

\* _complete_project_index, for report-done or to recover it, wherever the task is.
Complete(task) ==
  /\ IndexWrite(
       <<Write(<<"active_task">>, IF ActiveTask = Str(task) THEN Null ELSE ActiveTask),
         Write(<<"tasks", "active">>, List(Others(TaskList("active"), task))),
         Write(<<"tasks", "completed">>, List(AlsoIn(TaskList("completed"), task)))>>)
  /\ Completed(task)

\* activate_next_queued_task.
Activate ==
  /\ TaskList("active") = <<>> /\ TaskList("queued") # <<>>
  /\ IndexWrite(
       <<Write(<<"tasks", "active">>, List(<<Head(TaskList("queued"))>>)),
         Write(<<"tasks", "queued">>, List(Tail(TaskList("queued")))),
         Write(<<"active_task">>, Str(Head(TaskList("queued"))))>>)
  /\ UNCHANGED early

\* The Planner puts a new task into the index, by hand.
Enlist(task) ==
  /\ \A key \in QueueKeys : task \notin ToSet(TaskList(key))
  /\ IndexWrite(
       IF TaskList("active") = <<>>
       THEN <<Write(<<"active_task">>, Str(task)), Write(<<"tasks", "active">>, List(<<task>>))>>
       ELSE <<Write(<<"tasks", "queued">>, List(Append(TaskList("queued"), task)))>>)
  /\ UNCHANGED early

\* The Planner switches the active task: it waits in the queue, or is blocked.
Switch(key) ==
  /\ TaskList("active") # <<>>
  /\ IndexWrite(
       <<Write(<<"tasks", "active">>, List(<<>>)),
         Write(<<"tasks", key>>, List(Append(TaskList(key), Head(TaskList("active"))))),
         Write(<<"active_task">>, Null)>>)
  /\ UNCHANGED early

\* The Planner puts a blocked task back into the queue.
Unblock(task) ==
  /\ task \in ToSet(TaskList("blocked"))
  /\ IndexWrite(
       <<Write(<<"tasks", "blocked">>, List(Others(TaskList("blocked"), task))),
         Write(<<"tasks", "queued">>, List(Append(TaskList("queued"), task)))>>)
  /\ UNCHANGED early

IndexStep ==
  \/ \E task \in Tasks : Complete(task)
  \/ Activate
  \/ \E task \in Tasks : Enlist(task)
  \/ \E key \in {"queued", "blocked"} : Switch(key)
  \/ \E task \in Tasks : Unblock(task)

Next ==
  \/ \E op \in RelayOperations[kind] : RelayOperation(op)
  \/ \E op \in HelperOperations[kind] : HelperOperation(op)
  \/ \E id \in Deliveries : Deliver(id)
  \/ \E key \in WakeKeys : Wake(key)
  \/ \E fields \in ReportingFields : SetPhase(fields, "submitted") \/ SetPhase(fields, "active")
  \/ \E fields \in ReportingFields : Report(fields)
  \/ kind = "index" /\ IndexStep

Spec == Init /\ [][Next]_vars

---------------------------------------------------------------------------
(* Properties.                                                             *)

\* report-done has come: reporting is a section.
Reported == kind # "index" /\ Has("reporting", Mapping)

\* What is read under the path is what was meant last, as the writer's text is understood.
Agree(data, meant, path) ==
  /\ path \in DOMAIN data <=> path \in DOMAIN meant
  /\ path \in DOMAIN meant => data[path] = Understood(meant[path].by, meant[path].value)

\* Whoever wrote last, the parser reads the values that were meant, and every other key
\* as it was: the two writers, their two ways of quoting and the parser agree, over any
\* sequence of operations, with two exceptions and no other.  The relay helper's digits,
\* null, true and false are read as another type than they were given as (Understood).
\* And report-done means to set the phase of reporting and loses the wake key beside it,
\* which schema.py and a test ask for: of the fields only the phase is read.
ReadsBack ==
  LET parsed == Parse(doc)
      data == parsed.data
      reporting == {path \in DOMAIN data : path[1] = "reporting"}
  IN /\ parsed.ok
     /\ \A path \in DOMAIN data \cup DOMAIN record :
          Agree(data, record, path) \/ (path[1] = "reporting" /\ Reported)
     /\ Reported => /\ Has("status", Str("DONE"))
                    /\ reporting = {<<"reporting">>, <<"reporting", "phase">>}
                    /\ data[<<"reporting", "phase">>] = Str("completed")

\* Whatever is completed, completed again, activated, enlisted, switched or unblocked,
\* the index satisfies what schema.py asks of it: a list names a task once, one task is
\* active at most and active_task names it, and a task is in two lists only if
\* report-done came for it while it was put aside: nothing takes it out of that list.
IndexIsValid == kind = "index" => ValidIndex(Reads, early)

\* The delivery the record names is the one that was handed over last, so that the
\* Reviewer and report-done go by it (_template/execution.md: a rework adds a
\* section with a new delivery_id and does not overwrite the old delivery).
DeliveryIsCurrent ==
  delivered # Nothing => Has("delivery_id", Understood("relay", Str(delivered)))

=============================================================================

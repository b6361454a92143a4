---------------------------- MODULE FailureParse ----------------------------
(***************************************************************************)
(* internal/sync/failure.go: parseFailure finds, in what a failed          *)
(* nextcloudcmd wrote to stderr, the item that failed.  A line is what the *)
(* regular expressions see of it.  nextcloudcmd, external, goes from item  *)
(* to item and reports each outcome; older versions word it differently.   *)
(***************************************************************************)
EXTENDS Integers, Sequences, FiniteSetsExt

CONSTANTS
    Items,          \* names of files
    Messages,       \* what the server says of a failure
    Pathlike,       \* those of both with a separator or a dot
    Telling,        \* those of both with an error status, "FatalError.txt"
    Control,        \* names that contain control characters
    Long,           \* messages of more than maxDetailLen bytes
    MaxLines        \* bound: lines of output

None == "none"

FailureParseAssumption ==
    /\ Items \cap Messages = {}
    /\ Pathlike \subseteq Items \cup Messages
    /\ Telling \subseteq Items \cup Messages
    /\ Control \subseteq Items /\ Long \subseteq Messages
    /\ MaxLines \in Nat

VARIABLES
    wording,        \* does this version write the propagator's line?
    output,         \* the lines so far
    cause           \* history: the line of the item that failed first, or 0

vars == <<wording, output, cause>>

\* Two of the nine errorStatuses, and two that a sync survives.
ErrorStatuses == {"FatalError", "NormalError"}
Survived == {"Success", "Conflict"}

-----------------------------------------------------------------------------
(* The parser.  A text is the sequence of what it holds; a line has the    *)
(* status propagationRe matches, the first error status anywhere, its      *)
(* quoted texts, the item's name first, and its text without the spaces.   *)

Holds(text, words) == \E i \in DOMAIN text : text[i] \in words

Blank == [status |-> None, token |-> None, quoted |-> <<>>, text |-> <<>>]

\* strconv.Quote, where there is a control character.
Sanitize(text) ==
    [of |-> text, escaped |-> Holds(text, Control), short |-> ~Holds(text, Long)]

Truncate(text) == [text EXCEPT !.short = TRUE]

PathFromLine(line) ==
    LET paths == {i \in DOMAIN line.quoted : line.quoted[i] \in Pathlike}
    IN  Sanitize(IF paths = {} THEN <<>> ELSE <<line.quoted[Min(paths)]>>)

\* Mutant: the directories' echo of a failure is taken for the cause.
LastPropagated(lines) ==
    LET failed == {i \in DOMAIN lines : lines[i].status \in ErrorStatuses}
    IN  IF failed = {} THEN 0 ELSE Max(failed)

FirstPropagated(lines) ==
    LET failed == {i \in DOMAIN lines : lines[i].status \in ErrorStatuses}
    IN  IF failed = {} THEN 0 ELSE Min(failed)

FirstMarked(lines) ==
    LET marked == {i \in DOMAIN lines : lines[i].token # None}
    IN  IF marked = {} THEN 0 ELSE Min(marked)

LastWritten(lines) ==
    LET written == {i \in DOMAIN lines : lines[i].text # <<>>}
    IN  IF written = {} THEN 0 ELSE Max(written)

Failure(reason, path, detail) ==
    [reason |-> reason, path |-> path, detail |-> Truncate(detail)]

\* The detail is the client's message, if there is one, or else the line.
ParseFailure(lines) ==
    LET propagated == FirstPropagated(lines)
        marked == FirstMarked(lines)
        last == LastWritten(lines)
    IN  CASE propagated # 0 ->
               Failure(lines[propagated].status,
                       Sanitize(<<lines[propagated].quoted[1]>>),
                       Sanitize(Tail(lines[propagated].quoted)))
          [] propagated = 0 /\ marked # 0 ->
               Failure(lines[marked].token, PathFromLine(lines[marked]),
                       Sanitize(lines[marked].text))
          [] propagated = 0 /\ marked = 0 /\ last # 0 ->
               Failure(None, Sanitize(<<>>), Sanitize(lines[last].text))
          [] OTHER -> Failure(None, Sanitize(<<>>), Sanitize(<<>>))

-----------------------------------------------------------------------------
(* nextcloudcmd.                                                           *)

\* What it says of an item, with or without a message.  Whatever contains an
\* error status counts as one, and the name comes before the status.
Line(item, status, reply) ==
    [status |-> IF wording = "propagator" THEN status ELSE None,
     token  |-> IF item \in Telling \/ (status \in Survived /\ Holds(reply, Telling))
                THEN "FatalError"
                ELSE IF status \in ErrorStatuses THEN status ELSE None,
     quoted |-> <<item>> \o reply,
     text   |-> <<item>> \o reply]

\* What it says of none: progress, or "modify final status NormalError".
Remark(token) ==
    [status |-> None, token |-> token, quoted |-> <<>>, text |-> <<"remark">>]

Replies == {<<>>} \cup {<<message>> : message \in Messages}

Init ==
    /\ wording \in {"propagator", "bare"}
    /\ output = <<>>
    /\ cause = 0

Report(item, status, reply) ==
    /\ Len(output) < MaxLines
    /\ output' = Append(output, Line(item, status, reply))
    /\ cause' = IF cause = 0 /\ status \in ErrorStatuses
                THEN Len(output) + 1 ELSE cause
    /\ UNCHANGED wording

WriteOther ==
    /\ Len(output) < MaxLines
    /\ \E line \in {Blank, Remark(None)} \cup {Remark(s) : s \in ErrorStatuses} :
          output' = Append(output, line)
    /\ UNCHANGED <<wording, cause>>

Next ==
    \/ \E item \in Items, status \in ErrorStatuses \cup Survived, reply \in Replies :
          Report(item, status, reply)
    \/ WriteOther

Spec == Init /\ [][Next]_vars

-----------------------------------------------------------------------------
(* Properties.                                                             *)

\* Only a word in a line tells failure from success, and the name of a file
\* that survived, or what was said of it, may hold that word.
Misleading(i) ==
    Holds(output[i].quoted, Telling) /\ (cause = 0 \/ i < cause)

\* The item of a line; or a message that looks like a path, where the name of
\* the item does not.
NamedBy(line) ==
    {text \in {line.quoted[i] : i \in DOMAIN line.quoted} :
        \/ text = line.quoted[1]
        \/ text \in Pathlike /\ line.quoted[1] \notin Pathlike}

\* failure.go:92, "the earliest item error is the cause and the later lines are
\* its echo", and failure.go:57, no "innocent file" is blamed, as far as the
\* code keeps to it.  The propagator's line of the item that failed first is
\* reported, whatever precedes and follows it.  In another wording a failure is
\* never reported without a reason, and the path is of the item that failed
\* first, unless an earlier line misleads; if none failed, only a line that
\* misleads puts a path into the report, and a reason comes from one of those
\* or from a remark.  Where anything was written something is found; no name
\* breaks a line of the log, and no detail is long.
BlamesCause ==
    LET f == ParseFailure(output)
        lines == DOMAIN output
    IN  /\ wording = "propagator" /\ cause # 0 =>
              /\ f.reason = output[cause].status
              /\ f.path.of = <<output[cause].quoted[1]>>
              /\ f.detail.of = Tail(output[cause].quoted)
        /\ cause # 0 => f.reason # None
        /\ f.path.of # <<>> =>
              \E i \in lines : /\ i = cause \/ Misleading(i)
                               /\ f.path.of[1] \in NamedBy(output[i])
        /\ cause = 0 /\ f.reason # None =>
              \E i \in lines : \/ Misleading(i)
                               \/ output[i] = Remark(f.reason)
        /\ f.path.of = <<>> /\ f.detail.of = <<>> /\ f.reason = None =>
              \A i \in lines : output[i] = Blank
        /\ Holds(f.path.of, Control) => f.path.escaped
        /\ Holds(f.detail.of, Control) => f.detail.escaped
        /\ f.detail.short
=============================================================================

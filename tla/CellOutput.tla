------------------------------ MODULE CellOutput ------------------------------
(***************************************************************************)
(* The output of one cell on its way to the host: the two channels of      *)
(* Jupyter and wait_for_execution(), IPythonOutputStream and emit_output() *)
(* of core/bridge.py, the protocol lines, the branches of handleLine() in  *)
(* core/kernel-runtime.ts that collect text and images, the result that    *)
(* the model is given, and the console history of extensions/cells.ts.     *)
(***************************************************************************)
EXTENDS OutputText

CONSTANTS CharBytes,     \* of the widest character
          Texts,         \* what one message prints
          Sizes,         \* of images
          ChunkChars,    \* _OUTPUT_MESSAGE_CHARS
          CaptureLimit,  \* OUTPUT_CAPTURE_LIMIT_BYTES
          ImageLimit, ImageBytes,
          HistoryLimit,  \* MAX_TRANSCRIPT_BYTES
          MaxMessages    \* bound on what the cell shows

ASSUME OutputAssumption ==
  /\ {MaxLines, MaxBytes, ChunkChars, MaxMessages, CharBytes} \subseteq Nat \ {0}
  /\ Texts \subseteq Seq(1..CharBytes \cup {NL}) /\ Sizes \subseteq Nat
  /\ {CaptureLimit, ImageLimit, ImageBytes, HistoryLimit} \subseteq Nat

VARIABLES
  sent,      \* history: what the cell showed
  iopub,     \* messages of the kernel that the bridge has not read
  shell,     \* the reply to the request: none, sent or read
  idle,      \* the bridge has read that the kernel is idle again
  pending,   \* _pending_clear
  wire,      \* protocol lines that the host has not handled
  output, images, dropped,  \* of the active request
  armed,     \* its interrupt: none, a cancellation, or the overflow
  latest,    \* the output that onOutput() saw last
  shown,     \* what the console history shows of it
  recorded,  \* bytes: what the history was given, and full: it takes no more
  full,
  state      \* the request: active, answered or lost

Interrupted == <<3, NL, NL>>

channels == <<sent, iopub, shell, idle>>
history == <<latest, shown, recorded, full>>
collected == <<output, images, dropped, armed, history, state>>
vars == <<channels, pending, wire, collected>>

Line == [type : {"output"}, kind : {"stream", "block"}, text : Seq(Nat \cup {NL}),
         continuation : BOOLEAN, final : BOOLEAN]
          \cup [type : {"clear", "result"}] \cup [type : {"image"}, size : Sizes]

TypeOK ==
  /\ shell \in {"none", "sent", "read"} /\ idle \in BOOLEAN /\ pending \in BOOLEAN
  /\ wire \in Seq(Line)
  /\ \A t \in {output, latest, shown} : t \in Seq(Nat \cup {NL})
  /\ images \in Seq(Sizes) /\ dropped \in Nat /\ recorded \in Nat /\ full \in BOOLEAN
  /\ armed \in {"no", "cancel", "overflow"}
  /\ state \in {"active", "answered", "lost"}

Init ==
  /\ sent = <<>> /\ iopub = <<>> /\ shell = "none" /\ idle = FALSE
  /\ pending = FALSE /\ wire = <<>>
  /\ output = <<>> /\ images = <<>> /\ dropped = 0 /\ armed = "no"
  /\ latest = <<>> /\ shown = <<>> /\ recorded = 0 /\ full = FALSE /\ state = "active"

-----------------------------------------------------------------------------
(***************************************************************************)
(* The kernel. A console on the same kernel runs code of its own, whose    *)
(* messages have another parent.                                           *)
(***************************************************************************)
Publish(message) ==
  /\ state = "active" /\ shell = "none"
  /\ iopub' = Append(iopub, message)
  /\ UNCHANGED <<idle, pending, wire, collected>>

Shows(message) ==
  /\ Len(sent) < MaxMessages
  /\ sent' = Append(sent, message)
  /\ Publish(message) /\ UNCHANGED shell

ConsoleShows ==
  /\ [type |-> "foreign"] \notin Range(iopub)
  /\ Publish([type |-> "foreign"])
  /\ UNCHANGED <<sent, shell>>

\* The reply and the status go to two channels.
CellEnds ==
  /\ shell' = "sent"
  /\ Publish([type |-> "idle"]) /\ UNCHANGED sent

Kernel ==
  \/ \E kind \in {"stream", "block"}, text \in Texts : Shows([type |-> kind, text |-> text])
  \/ \E size \in Sizes : Shows([type |-> "image", size |-> size])
  \/ \E wait \in BOOLEAN : Shows([type |-> "clear", wait |-> wait])
  \/ ConsoleShows \/ CellEnds

-----------------------------------------------------------------------------
(***************************************************************************)
(* The bridge.                                                             *)
(***************************************************************************)

\* The wait ends when both channels have said so.
Complete == shell = "read" /\ idle

\* A message of this request, or one that is passed over.
Reads(types) ==
  /\ state = "active" /\ ~Complete /\ iopub # <<>> /\ Head(iopub).type \in types
  /\ iopub' = Tail(iopub)
  /\ UNCHANGED <<sent, shell, collected>>

ReadForeign == Reads({"foreign"}) /\ UNCHANGED <<idle, pending, wire>>
ReadIdle == Reads({"idle"}) /\ idle' = TRUE /\ UNCHANGED <<pending, wire>>

ReadReply ==
  /\ state = "active" /\ shell = "sent"
  /\ shell' = "read"
  /\ UNCHANGED <<sent, iopub, idle, pending, wire, collected>>

\* Mutant: the line is named as the message is.
Cleared_Jupyter == <<[type |-> "clear_output"]>>

\* A clear that waits comes before the next output.
Cleared == IF pending THEN <<[type |-> "clear"]>> ELSE <<>>

\* Mutant: every message of a text looks like its first.
Continuation_Never(start) == FALSE

Continuation(start) == start > 0

Chunks(kind, text) ==
  [n \in 1..(Len(text) + ChunkChars - 1) \div ChunkChars |->
    LET start == (n - 1) * ChunkChars
        end == Min({start + ChunkChars, Len(text)})
    IN  [type |-> "output", kind |-> kind, text |-> SubSeq(text, start + 1, end),
         continuation |-> Continuation(start), final |-> end = Len(text)]]

\* A stream, or the text of a result, a display or an error.
FeedText ==
  /\ Reads({"stream", "block"})
  /\ wire' = wire \o Cleared \o Chunks(Head(iopub).type, Head(iopub).text)
  /\ pending' = FALSE /\ UNCHANGED idle

FeedImage ==
  /\ Reads({"image"})
  /\ wire' = wire \o Cleared \o <<Head(iopub)>>
  /\ pending' = FALSE /\ UNCHANGED idle

FeedClear ==
  /\ Reads({"clear"})
  /\ IF Head(iopub).wait THEN pending' = TRUE /\ UNCHANGED wire
     ELSE pending' = FALSE /\ wire' = Append(wire, [type |-> "clear"])
  /\ UNCHANGED idle

SendResult ==
  /\ state = "active" /\ Complete /\ [type |-> "result"] \notin Range(wire)
  /\ wire' = Append(wire, [type |-> "result"])
  /\ UNCHANGED <<channels, pending, collected>>

Bridge ==
  ReadForeign \/ ReadIdle \/ ReadReply \/ FeedText \/ FeedImage \/ FeedClear \/ SendResult

-----------------------------------------------------------------------------
(***************************************************************************)
(* The host.                                                               *)
(***************************************************************************)
Handles(type) ==
  /\ state = "active" /\ wire # <<>> /\ Head(wire).type = type
  /\ wire' = Tail(wire)
  /\ UNCHANGED <<channels, pending>>

\* CellsView.append(): at the limit the history stops for good.
Records(added, view) ==
  IF full THEN UNCHANGED <<shown, recorded, full>>
  ELSE /\ recorded' = recorded + Bytes(added)
       /\ full' = (recorded' > HistoryLimit)
       /\ shown' = IF full' THEN shown ELSE view

\* Mutant: a text that does not start like the last one is appended to it.
Follow_Appends(text) ==
  LET more == SubSeq(text, Len(latest) + 1, Len(text))
  IN  latest' = text /\ Records(more, shown \o more)

\* onOutput(), down to CellsView.output(): the rest of the text is appended, or
\* a note says that the output was replaced and all of it follows.
Follow(text) ==
  LET more == SubSeq(text, Len(latest) + 1, Len(text))
  IN  /\ latest' = text
      /\ IF IsPrefix(latest, text) THEN Records(more, shown \o more) ELSE Records(text, text)

HandleClear ==
  /\ Handles("clear")
  /\ output' = <<>> /\ images' = <<>> /\ dropped' = 0
  /\ Follow(<<>>)
  /\ UNCHANGED <<armed, state>>

SumSeq(s) ==
  LET upto[n \in 0..Len(s)] == IF n = 0 THEN 0 ELSE upto[n - 1] + s[n]
  IN  upto[Len(s)]

Kept(size) == Len(images) < ImageLimit /\ size + SumSeq(images) <= ImageBytes

HandleImage ==
  /\ Handles("image")
  /\ IF Kept(Head(wire).size)
     THEN images' = Append(images, Head(wire).size) /\ UNCHANGED dropped
     ELSE dropped' = dropped + 1 /\ UNCHANGED images
  /\ UNCHANGED <<output, armed, history, state>>

OnLine(text) == IF text # <<>> /\ ~EndsLine(text) THEN Append(text, NL) ELSE text

\* A block of text has lines of its own.
Added(text, line) ==
  IF line.kind = "stream" THEN text \o line.text
  ELSE LET more == (IF line.continuation THEN text ELSE OnLine(text)) \o line.text
       IN  IF line.final THEN OnLine(more) ELSE more

\* Mutant: an overflow does not interrupt the cell.
Overflows_Quietly(text) ==
  /\ Bytes(text) > CaptureLimit
  /\ UNCHANGED armed

\* The text is saved to a file, and a cell that was not interrupted before is.
Overflows(text) ==
  /\ Bytes(text) > CaptureLimit
  /\ armed' = IF armed = "no" THEN "overflow" ELSE armed

HandleOutput ==
  /\ Handles("output") /\ armed # "overflow"
  /\ output' = Added(output, Head(wire))
  /\ \/ Overflows(output') /\ UNCHANGED history
     \/ Bytes(output') <= CaptureLimit /\ Follow(output') /\ UNCHANGED armed
  /\ UNCHANGED <<images, dropped, state>>

IgnoreOutput ==
  /\ Handles("output") /\ armed = "overflow"
  /\ UNCHANGED <<output, images, dropped, armed, history, state>>

Cancel ==
  /\ state = "active" /\ armed = "no"
  /\ armed' = "cancel"
  /\ UNCHANGED <<channels, pending, wire, output, images, dropped, history, state>>

\* The result of an interrupted cell begins with the reason.
ResultText == IF armed = "no" THEN output ELSE Interrupted \o output

HandleResult ==
  /\ Handles("result")
  /\ state' = "answered"
  /\ Follow(ResultText)
  /\ UNCHANGED <<output, images, dropped, armed>>

\* The grace timer, or the end of the kernel.
Lost ==
  /\ state = "active"
  /\ state' = "lost"
  /\ UNCHANGED <<channels, pending, wire, output, images, dropped, armed, history>>

Host == HandleClear \/ HandleImage \/ HandleOutput \/ IgnoreOutput \/ HandleResult \/ Cancel \/ Lost
Next == Kernel \/ Bridge \/ Host
Spec == Init /\ [][Next]_vars

-----------------------------------------------------------------------------
(***************************************************************************)
(* Properties.                                                             *)
(***************************************************************************)

\* What a Jupyter front end shows: everything after the last clear that took
\* effect, where one that waits takes effect with the next output.
IsOutput(message) == message.type # "clear"
TookEffect(messages, n) ==
  ~messages[n].wait \/ \E m \in n + 1..Len(messages) : IsOutput(messages[m])
LastClear(messages) ==
  Max({0} \cup {n \in DOMAIN messages : ~IsOutput(messages[n]) /\ TookEffect(messages, n)})
Draw(screen, message) ==
  IF message.type = "clear" THEN screen
  ELSE IF message.type = "image" THEN [screen EXCEPT !.images = Append(@, message.size)]
  ELSE IF message.type = "stream" \/ message.text = <<>>
  THEN [screen EXCEPT !.text = @ \o message.text]
  ELSE [screen EXCEPT !.text = OnLine(OnLine(@) \o message.text)]
Screen(messages) ==
  LET last == LastClear(messages)
      drawn[n \in 0..Len(messages)] ==
        IF n <= last THEN [text |-> <<>>, images |-> <<>>] ELSE Draw(drawn[n - 1], messages[n])
  IN  drawn[Len(messages)]

\* When everything shown was handled, and in any result, the text is what a front
\* end shows, whatever it was cut into and however the channels interleave. Every
\* image is kept within both limits or counted, and none is dropped for nothing. What
\* the model is not given of the text is in a file that the result names.
Handled == state = "answered" \/ (state = "active" /\ iopub = <<>> /\ wire = <<>>)
ShowsCell ==
  LET screen == Screen(sent)
      told == FinalOutput(ResultText)
  IN  Handled /\ armed # "overflow" =>
        /\ output = screen.text
        /\ output \in Suffixes(IF told.file = {} THEN told.output ELSE CHOOSE text \in told.file : TRUE)
        /\ Len(images) + dropped = Len(screen.images)
        /\ dropped = 0 => images = screen.images
        /\ Len(images) <= ImageLimit /\ SumSeq(images) <= ImageBytes
        /\ dropped > 0 => Len(images) = ImageLimit \/ \E size \in Sizes : SumSeq(images) + size > ImageBytes

\* A cell that prints too much is interrupted, and its text stays bounded unless
\* it was cancelled before.
Overflow ==
  /\ Bytes(output) > CaptureLimit => armed # "no"
  /\ armed # "cancel" => Bytes(output) <= CaptureLimit + CharBytes * ChunkChars + 2

\* Until it is full, the console history ends with the output of the cell, and in
\* the end with that of its result.
HistoryFollows ==
  LET text == IF state = "answered" THEN ResultText ELSE output
  IN  state = "answered" \/ (state = "active" /\ Bytes(output) <= CaptureLimit) =>
        latest = text /\ (full \/ shown = text)

\* The tail of the text is the one that the limits define.
TailAgrees == TruncateTail(output) = TailByDefinition(output)
=============================================================================

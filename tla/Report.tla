------------------------------- MODULE Report -------------------------------
(***************************************************************************)
(* How the results of a check become the comments of one report            *)
(* (pkg/msg/message.go, pkg/msg/split.go, pkg/commitState.go).             *)
(*                                                                         *)
(* A text is a sequence of lines.  A line keeps what the splitter looks at: *)
(* its length in bytes, the fence it starts with (the number of backticks, *)
(* 0 for none) with the length of the info string after it, and its        *)
(* <details>, </details> and <summary> tags, each with the byte it ends    *)
(* at.  Its id tells which line of the results it is, 0 for the text that  *)
(* the report adds around them.  The lengths below are those of the        *)
(* strings in the code.                                                    *)
(***************************************************************************)
EXTENDS Integers, Sequences, SequencesExt

CONSTANTS MaxLength,    \* of a comment, in bytes
          Identifier,   \* length of the configured identifier
          Footer,       \* length of the line that ends a report
          AppHeader     \* length of the line that names an application

ASSUME LengthsAssumption ==
  /\ {Identifier, Footer, AppHeader} \subseteq Nat
  /\ MaxLength \in Nat \ {0}

MaxCommentsPerCheck == 999

Plain(n) == [len |-> n, fence |-> 0, info |-> 0, tags |-> <<>>, id |-> 0]
Tagged(n, tag, end, text) == [Plain(n) EXCEPT !.tags = <<[tag |-> tag, end |-> end, text |-> text]>>]

footerSeparator == Plain(2)
continuedFrom == Plain(37)
continuedIn == Plain(32)
truncatedNote == [Plain(89) EXCEPT !.tags = <<[tag |-> "truncated", end |-> 89, text |-> 0]>>]
cutShortNote == [Plain(59) EXCEPT !.tags = <<[tag |-> "cut short", end |-> 59, text |-> 0]>>]
checkSeparator == Plain(7)
lineTruncated == Plain(21)
maxCarriedSummary == 80

Size(text) == FoldLeft(LAMBDA n, line : n + line.len, 0, text)
Concat(texts) == FoldLeft(\o, <<>>, texts)
SizeOf(texts) == Size(Concat(texts))

Digits(n) == IF n < 10 THEN 1 ELSE IF n < 100 THEN 2 ELSE 3
partSuffix(part, total) == 12 + Digits(part) + Digits(total)
chunkHeader(part, total) ==
  Plain(21 + Identifier + IF total = 1 THEN 0 ELSE partSuffix(part, total))

-----------------------------------------------------------------------------
(* What is open at a line: a code fence, and <details> blocks, outermost   *)
(* first, each with the length of its summary once it has one.             *)
NoSummary == -1
Closed == [fence |-> 0, info |-> 0, details |-> <<>>]

OpenTag(details, t) ==
  CASE t.tag = "open" -> Append(details, NoSummary)
    [] t.tag = "close" /\ details # <<>> -> Front(details)
    [] OTHER -> details

CarriedSummary(details, line) ==
  LET summaries == SelectSeq(line.tags, LAMBDA t : t.tag = "summary")
  IN IF details # <<>> /\ Last(details) = NoSummary /\ summaries # <<>>
       THEN Append(Front(details), Min({Head(summaries).text, maxCarriedSummary}))
       ELSE details

(* A fence closes on a bare one that is at least as long; inside it no tag *)
(* counts.                                                                 *)
next(s, line) ==
  IF s.fence > 0
    THEN IF line.info = 0 /\ line.fence >= s.fence THEN [s EXCEPT !.fence = 0, !.info = 0] ELSE s
  ELSE IF line.fence > 0
    THEN [s EXCEPT !.fence = line.fence, !.info = line.info]
  ELSE [s EXCEPT !.details = CarriedSummary(FoldLeft(OpenTag, @, line.tags), line)]

StateAfter(text) == FoldLeft(next, Closed, text)

FenceLine(fence, info) == [Plain(fence + info + 1) EXCEPT !.fence = fence, !.info = info]
DetailsOpen == Tagged(10, "open", 9, 0)
DetailsClose == Tagged(12, "close", 11, 0)
Continued(summary) == Tagged(33 + summary, "summary", 31 + summary, summary + 12)

closer(s) ==
  (IF s.fence > 0 THEN <<FenceLine(s.fence, 0)>> ELSE <<>>) \o [i \in DOMAIN s.details |-> DetailsClose]
closerLen(s) == Len(s.details) * DetailsClose.len + IF s.fence > 0 THEN s.fence + 1 ELSE 0
(* Mutant: the next part does not open the code fence again.               *)
openerWithoutFence(s) ==
  Concat([i \in DOMAIN s.details |->
            IF s.details[i] = NoSummary THEN <<DetailsOpen>> ELSE <<DetailsOpen, Continued(s.details[i])>>])

opener(s) ==
  Concat([i \in DOMAIN s.details |->
            IF s.details[i] = NoSummary THEN <<DetailsOpen>> ELSE <<DetailsOpen, Continued(s.details[i])>>])
  \o IF s.fence > 0 THEN <<FenceLine(s.fence, s.info)>> ELSE <<>>

(* The first n bytes of a line: a tag goes with its last byte, a fence is  *)
(* one as long as three backticks are left.                                *)
cutAtRune(line, n) ==
  IF n >= line.len THEN line
  ELSE LET left == Max({n, 0})
           fence == IF line.fence > 0 /\ left >= 3 THEN Min({line.fence, left}) ELSE 0
       IN [line EXCEPT !.len = left, !.fence = fence,
                       !.info = IF fence = 0 THEN 0 ELSE Min({@, left - fence}),
                       !.tags = SelectSeq(@, LAMBDA t : t.end <= left)]

(* The note makes what is left of a fence line one with an info string.    *)
WithNote(cut) ==
  [cut EXCEPT !.len = @ + lineTruncated.len,
              !.info = IF cut.fence > 0 THEN @ + lineTruncated.len - 1 ELSE 0]
Truncated(line, n) == WithNote(cutAtRune(line, n))

(* A line cut to the space that is left for it and for the closing of what *)
(* it opens.                                                               *)
Fitted(line, s, space) ==
  LET Room(l) == space - closerLen(next(s, l))
      Cut[room \in Int] ==
        LET Try(cut, left) == IF cut.len <= left THEN cut ELSE Cut[left]
            TryCut(cut) == Try(cut, Room(cut))
        IN IF room < lineTruncated.len THEN [lineTruncated EXCEPT !.id = line.id]
           ELSE TryCut(Truncated(line, room - lineTruncated.len))
  IN IF line.len <= Room(line) THEN line ELSE Cut[Room(line)]

(* The parts that are full, what the next one holds, and what is open.     *)
AddLine(acc, line, maxLen) ==
  LET Put(parts, buf, l) == [parts |-> parts, buf |-> Append(buf, l), state |-> next(acc.state, l)]
      Into(parts, buf) == Put(parts, buf, Fitted(line, acc.state, maxLen - Size(buf)))
  IN IF acc.buf # <<>> /\ Size(acc.buf) + line.len + closerLen(next(acc.state, line)) > maxLen
       THEN Into(Append(acc.parts, acc.buf \o closer(acc.state)), opener(acc.state))
       ELSE Into(acc.parts, acc.buf)

splitDetailsAtLines(content, maxLen) ==
  LET Finish(acc) == Append(acc.parts, acc.buf \o closer(acc.state))
  IN IF maxLen <= 0 \/ Size(content) <= maxLen THEN <<content>>
     ELSE Finish(FoldLeft(LAMBDA acc, line : AddLine(acc, line, maxLen),
                          [parts |-> <<>>, buf |-> <<>>, state |-> Closed], content))

-----------------------------------------------------------------------------
(* A check is the length of its summary and the lines of its details.      *)
renderCheck(summary, details) ==
  <<DetailsOpen, Tagged(21 + summary, "summary", 19 + summary, summary)>>
  \o details \o <<Tagged(11, "close", 11, 0)>>

wrapAppSection(checks) ==
  <<DetailsOpen, Plain(24 + AppHeader)>> \o Concat(checks) \o <<Tagged(10, "close", 10, 0)>>

Joined(checks) == [i \in DOMAIN checks |-> IF i = 1 THEN checks[i] ELSE <<checkSeparator>> \o checks[i]]

(* The suffix takes room from the details, the more the more parts.        *)
splitCheck(c, maxLen) ==
  LET PartsFor[reserve \in Nat] ==
        LET Enough(parts, needed) == IF needed <= reserve THEN parts ELSE PartsFor[needed]
            EnoughFor(parts) == Enough(parts, partSuffix(Len(parts), Len(parts)))
        IN EnoughFor(splitDetailsAtLines(c.details, maxLen - Size(renderCheck(c.summary, <<>>)) - reserve))
      Suffix(i, total) == IF total > 1 THEN partSuffix(i, total) ELSE 0
      Rendered(parts) ==
        [i \in DOMAIN parts |-> renderCheck(c.summary + Suffix(i, Len(parts)), parts[i])]
  IN Rendered(PartsFor[partSuffix(99, 99)])

(* A result's state is its place in the order from none to panic.          *)
States == 0..7
StateNone == 0
StateSkip == 1
StateSuccess == 2
StateRunning == 3
StateWarning == 4
StateFailure == 5
StateError == 6
StatePanic == 7

NoChanges(app) == \E i \in DOMAIN app.results : app.results[i].noChanges
HasSticky(app) == \E i \in DOMAIN app.results : app.results[i].sticky
Hidden(app) == NoChanges(app) /\ ~HasSticky(app)
Checks(app) == SelectSeq(app.results, LAMBDA r : ~r.noChanges /\ r.state # StateSkip)

(* Sections that are full, and the checks for the next one.                *)
Flushed(acc) == IF acc.group = <<>> THEN acc.sections
                ELSE Append(acc.sections, wrapAppSection(Joined(acc.group)))
AddCheck(acc, c, maxLen) ==
  LET Wrapped(parts) == [i \in DOMAIN parts |-> wrapAppSection(<<parts[i]>>)]
      Add(rendered, group) ==
        IF SizeOf(Joined(group)) <= maxLen THEN [acc EXCEPT !.group = group]
        ELSE IF Size(rendered) <= maxLen THEN [sections |-> Flushed(acc), group |-> <<rendered>>]
        ELSE [sections |-> Flushed(acc) \o Wrapped(splitCheck(c, maxLen)), group |-> <<>>]
      AddRendered(rendered) == Add(rendered, Append(acc.group, rendered))
  IN AddRendered(renderCheck(c.summary, c.details))

buildAppSections(app, maxSectionLen) ==
  LET maxLen == maxSectionLen - Size(wrapAppSection(<<>>))
      OneAtLeast(sections) == IF sections = <<>> THEN <<wrapAppSection(<<>>)>> ELSE sections
  IN IF Hidden(app) THEN <<>>
     ELSE OneAtLeast(Flushed(FoldLeft(LAMBDA acc, c : AddCheck(acc, c, maxLen),
                                      [sections |-> <<>>, group |-> <<>>], Checks(app))))

packSections(sections, budget) ==
  LET Add(acc, section) ==
        IF acc.current # <<>> /\ SizeOf(acc.current) + Size(section) > budget
          THEN [chunks |-> Append(acc.chunks, acc.current), current |-> <<section>>]
          ELSE [acc EXCEPT !.current = Append(@, section)]
      Finish(acc) == IF acc.current = <<>> THEN acc.chunks ELSE Append(acc.chunks, acc.current)
  IN Finish(FoldLeft(Add, [chunks |-> <<>>, current |-> <<>>], sections))

(* Mutant: rendering stops as soon as the last comment is begun.           *)
buildSectionsUpTo(apps, budget, maxChunks) ==
  LET AddApp(sections, app) ==
        IF Len(packSections(sections, budget)) >= maxChunks \/ app.deleted THEN sections
        ELSE sections \o buildAppSections(app, budget)
  IN FoldLeft(AddApp, <<>>, apps)

(* The applications of a report come sorted by name.                       *)
buildSections(apps, budget, maxChunks) ==
  LET AddApp(sections, app) ==
        IF Len(packSections(sections, budget)) > maxChunks \/ app.deleted THEN sections
        ELSE sections \o buildAppSections(app, budget)
  IN FoldLeft(AddApp, <<>>, apps)

-----------------------------------------------------------------------------
(* The first n bytes of a text.                                            *)
TextPrefix(text, n) ==
  LET room[i \in 1..Len(text)] == IF i = 1 THEN n ELSE room[i - 1] - text[i - 1].len
      kept == {i \in DOMAIN text : room[i] > 0}
  IN [i \in 1..Cardinality(kept) |-> cutAtRune(text[i], room[i])]

cutShort(text, maxLen) ==
  LET budget == maxLen - cutShortNote.len
      Try[room \in Int] ==
        LET Fit(cut, end, over) == IF over > 0 THEN Try[room - over] ELSE cut \o end \o <<cutShortNote>>
            CloseUp(cut, end) == Fit(cut, end, Size(cut) + Size(end) - budget)
            Close(cut) == CloseUp(cut, <<Plain(1)>> \o closer(StateAfter(cut)))
        IN IF room <= 0 THEN TextPrefix(text, maxLen) ELSE Close(TextPrefix(text, room))
  IN Try[budget]

sectionBudget ==
  MaxLength - chunkHeader(MaxCommentsPerCheck, MaxCommentsPerCheck).len - continuedFrom.len
            - Max({continuedIn.len, footerSeparator.len + Footer + truncatedNote.len})
oneCommentBudget == MaxLength - chunkHeader(1, 1).len - footerSeparator.len - Footer
fitsOneComment(sections) == SizeOf(sections) <= oneCommentBudget

NoChangesText == <<Plain(10)>>

frameChunks(packed, truncated) ==
  LET TailOf(last) == IF ~last THEN <<continuedIn>>
                      ELSE <<footerSeparator, Plain(Footer)>> \o IF truncated THEN <<truncatedNote>> ELSE <<>>
      Framed(body, tail) ==
        (IF Size(body) + Size(tail) <= MaxLength THEN body ELSE cutShort(body, MaxLength - Size(tail))) \o tail
      Frame(chunks, total) ==
        [i \in 1..total |->
           Framed(<<chunkHeader(i, total)>> \o (IF i > 1 THEN <<continuedFrom>> ELSE <<>>) \o Concat(chunks[i]),
                  TailOf(i = total))]
      FrameAll(chunks) == Frame(chunks, Len(chunks))
  IN FrameAll(IF packed \in {<<>>, <<<<>>>>} THEN <<<<NoChangesText>>>> ELSE packed)

splitIntoChunks(sections, maxChunks) ==
  LET Cap(raw) == frameChunks(SubSeq(raw, 1, Min({Len(raw), maxChunks})), Len(raw) > maxChunks)
  IN Cap(packSections(sections, sectionBudget))

BuildComment(apps, maxComments) ==
  LET maxChunks == IF maxComments \in 1..MaxCommentsPerCheck THEN maxComments ELSE MaxCommentsPerCheck
      Comment(sections) ==
        IF fitsOneComment(sections) THEN frameChunks(<<sections>>, FALSE)
        ELSE splitIntoChunks(buildSections(apps, sectionBudget, maxChunks), maxChunks)
  IN Comment(buildSections(apps, oneCommentBudget, 1))

-----------------------------------------------------------------------------
(* The state that the commit gets: the worst of the results, not counting  *)
(* those without changes and those of removed applications.                *)
Counted(app) == {i \in DOMAIN app.results : ~app.deleted /\ ~app.results[i].noChanges}
WorstState(apps) ==
  Max({StateNone} \cup UNION {{apps[a].results[i].state : i \in Counted(apps[a])} : a \in DOMAIN apps})

toGithubCommitStatus(state) ==
  CASE state \in {StateError, StatePanic} -> "error"
    [] state = StateFailure -> "failure"
    [] state = StateRunning -> "pending"
    [] OTHER -> "success"

convertState(state) ==
  CASE state = StateRunning -> "running"
    [] state \in {StateFailure, StateError, StatePanic} -> "failed"
    [] OTHER -> "success"
=============================================================================

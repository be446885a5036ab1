------------------------------ MODULE Transfer ------------------------------
(***************************************************************************)
(* One preview or download of a stored file.  The answer takes several     *)
(* steps (the row, the size, the content), between which the file may be   *)
(* moved away by a removal or put back by a restore; what a preview sends  *)
(* depends on the Range header of the request.                             *)
(*                                                                         *)
(* A position stands for a byte; contents are written once, so a file has  *)
(* one size.                                                               *)
(***************************************************************************)
EXTENDS Integers, FiniteSetsExt

CONSTANTS
  MaxSize,    \* bound: bytes of a file
  MaxNumber   \* bound: numbers in a Range header

ASSUME TransferAssumption == MaxSize \in Nat /\ MaxNumber \in Nat /\ MaxSize <= MaxNumber

VARIABLES
  content,   \* of the file: its size, the state of its row, whether it is in the upload directory
  transfer,  \* what is asked, and by whom
  response   \* how far the answer is: its status, the interval it announces, the bytes sent

transferVars == <<content, transfer, response>>

\* The Range header.  NoNumber is an empty side of the dash.
NoNumber == -1
Number == 0..MaxNumber \cup {NoNumber}
Header ==
  [form : {"absent", "garbled", "several"}, first : {NoNumber}, last : {NoNumber}]
    \cup [form : {"one"}, first : Number, last : Number]

NoBytes == [start |-> 0, end |-> -1]
Interval == [start : 0..MaxNumber, end : -1..MaxNumber]
BytesOf(interval) == interval.start..interval.end

TransferTypeOK ==
  /\ content \in [size : 0..MaxSize, row : {"none", "live", "deleted"}, stored : BOOLEAN, inDir : BOOLEAN]
  /\ transfer \in [kind : {"preview", "download"}, header : Header, mayRead : BOOLEAN]
  /\ response \in [pc : {"row", "stat", "headers", "stream", "sent", "cut"},
                   status : {0, 200, 206, 403, 404, 416}, announced : Interval, body : SUBSET (0..MaxNumber)]

\* mayRead: of the administrator, or of the one who uploaded it.  A row of a time when
\* the server had another upload directory is not inDir.
TransferInit ==
  /\ content \in [size : 0..MaxSize, row : {"none", "live", "deleted"}, stored : {TRUE}, inDir : BOOLEAN]
  /\ transfer \in [kind : {"preview", "download"}, header : Header, mayRead : BOOLEAN]
  /\ response = [pc |-> "row", status |-> 0, announced |-> NoBytes, body |-> {}]

Replies(status) == response' = [response EXCEPT !.pc = "sent", !.status = status]
ReplyGoes(pc) == response' = [response EXCEPT !.pc = pc]

-----------------------------------------------------------------------------
Ignore == [is |-> "ignore"]
Unsatisfiable == [is |-> "unsatisfiable"]
Part(start, end) == [is |-> "part", start |-> start, end |-> end]

\* bytes=-n: the last n bytes.
ParseSuffix(n, size) ==
  IF n <= 0 THEN Ignore
  ELSE IF size = 0 THEN Unsatisfiable
  ELSE Part(Max({0, size - n}), size - 1)

\* Faulty: a range that goes on after the end of the file is taken as it is.
ParsePartUncut(start, end, size) ==
  IF end # NoNumber /\ end < start THEN Ignore
  ELSE IF start >= size THEN Unsatisfiable
  ELSE Part(start, IF end = NoNumber THEN size - 1 ELSE end)

\* bytes=s- and bytes=s-e.
ParsePart(start, end, size) ==
  IF end # NoNumber /\ end < start THEN Ignore
  ELSE IF start >= size THEN Unsatisfiable
  ELSE Part(start, IF end = NoNumber THEN size - 1 ELSE Min({end, size - 1}))

ParseRange(header, size) ==
  IF header.form # "one" \/ (header.first = NoNumber /\ header.last = NoNumber) THEN Ignore
  ELSE IF header.first = NoNumber THEN ParseSuffix(header.last, size)
  ELSE ParsePart(header.first, header.last, size)

-----------------------------------------------------------------------------
\* findByIdRaw and the checks.
FindByIdRaw ==
  /\ response.pc = "row"
  /\ CASE content.row # "live"     -> Replies(404)
       [] ~transfer.mayRead      -> Replies(403)
       [] ~content.inDir           -> Replies(404)
       [] OTHER                 -> ReplyGoes("stat")

\* isPathSafe looks at the row only; here the disk is asked.
StatFile ==
  /\ response.pc = "stat"
  /\ IF content.stored THEN ReplyGoes("headers") ELSE Replies(404)

\* The headers; nothing is sent before the first bytes.
Announces(status, start, end) ==
  response' = [response EXCEPT !.pc = "stream", !.status = status,
                 !.announced = [start |-> start, end |-> end]]

SetHeaders ==
  /\ response.pc = "headers"
  /\ LET asked == IF transfer.kind = "preview" THEN ParseRange(transfer.header, content.size) ELSE Ignore
     IN CASE asked.is = "part"          -> Announces(206, asked.start, asked.end)
          [] asked.is = "unsatisfiable" -> Replies(416)
          [] asked.is = "ignore"        -> Announces(200, 0, content.size - 1)

\* createReadStream opens the file, if it is still there; once open, it is read to the
\* end wherever it is moved.
StreamEnds ==
  /\ response.pc = "stream" /\ content.stored
  /\ response' = [response EXCEPT !.pc = "sent",
                    !.body = BytesOf(response.announced) \cap 0..(content.size - 1)]

\* on('error'): the answer ends short of what it announced.
StreamBreaks ==
  /\ response.pc = "stream"
  /\ \E short \in response.announced.start..response.announced.end :
       response' = [response EXCEPT !.pc = "cut", !.body = response.announced.start..(short - 1)]

TransferStep == (FindByIdRaw \/ StatFile \/ SetHeaders \/ StreamEnds \/ StreamBreaks) /\ UNCHANGED <<content, transfer>>

\* A removal marks the row, then moves the file; a restore or a cleanup the other way.
RowTurns ==
  /\ \/ content.row = "live" /\ content' = [content EXCEPT !.row = "deleted"]
     \/ content.row = "deleted" /\ \E r \in {"live", "none"} : content' = [content EXCEPT !.row = r]
  /\ UNCHANGED <<transfer, response>>

FileMoves ==
  /\ content.stored # (content.row = "live")
  /\ content' = [content EXCEPT !.stored = ~@] /\ UNCHANGED <<transfer, response>>

TransferNext == TransferStep \/ RowTurns \/ FileMoves

TransferSpec == TransferInit /\ [][TransferNext]_transferVars

-----------------------------------------------------------------------------
\* The bytes a header asks for by its meaning (RFC 9110, 14.1.2), the file's or not.
Meant(header, size) ==
  CASE header.first = NoNumber -> {p \in 0..(size - 1) : p >= size - header.last}
    [] header.last = NoNumber  -> {p \in 0..MaxSize : p >= header.first}
    [] OTHER                   -> header.first..header.last

\* A header to be heeded: one range, not empty by itself.
MeansARange(header) ==
  /\ header.form = "one"
  /\ header.first # NoNumber \/ header.last > 0
  /\ header.last # NoNumber => header.first <= header.last

(* A partial answer announces the bytes of the file that were asked for, and some; one
   that the range cannot be satisfied is given only when the file has none of them; any
   other announces the whole file.  An answer that is not cut short sends what it
   announced. *)
AnswersTheRange ==
  LET whole == 0..(content.size - 1)
      wanted == Meant(transfer.header, content.size) \cap whole
      heeded == transfer.kind = "preview" /\ MeansARange(transfer.header)
  IN /\ response.status = 206 => heeded /\ wanted # {} /\ BytesOf(response.announced) = wanted
     /\ response.status = 416 => heeded /\ wanted = {}
     /\ response.status = 200 => ~heeded /\ BytesOf(response.announced) = whole
     /\ response.pc = "sent" /\ response.status \in {200, 206} => response.body = BytesOf(response.announced)
=============================================================================

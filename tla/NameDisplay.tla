----------------------------- MODULE NameDisplay ----------------------------
(***************************************************************************)
(* lab4: a name goes letter by letter from writer.c into the buffer led of *)
(* the driver mydev.c, from there pattern by pattern through reader.c and  *)
(* a TCP stream to the display seg.py.  Writer, reader and display run by  *)
(* clocks of their own, and nothing keeps strcpy into led and copy_to_user *)
(* from it apart: both go byte by byte.                                    *)
(*                                                                         *)
(* Which segments a letter lights is data: a byte is the number of the     *)
(* letter of the name it belongs to, 0 for the NUL of a buffer that was    *)
(* never written; on the way to the display it carries its place in the    *)
(* pattern too.                                                            *)
(***************************************************************************)
EXTENDS Integers, Sequences

CONSTANTS
  Length,  \* the number of letters of the name
  Width,   \* the bytes of a pattern, 16 in the code
  Buffer   \* the bytes the stream holds before write blocks

ASSUME DisplayAssumption ==
  /\ Length \in Nat \ {0} /\ Width \in Nat \ {0} /\ Buffer \in Nat /\ Buffer >= Width

Letters == 1 .. Length
Places  == 1 .. Width

VARIABLES
  loaded,      \* the driver is loaded
  led,         \* per place: the letter whose byte led[] holds there
  writer,      \* "start"; then "open", or "shut" if it could not open the device
  letter,      \* the letter writer is at; Length + 1: it has ended
  written,     \* the bytes of it that are in led
  reader,      \* what reader does next
  buf,         \* the bytes reader has so far
  stream,      \* the bytes on the way to the display
  display,     \* "polls", or "stopped" by an exception in update
  shown,       \* per place: the byte the segment there shows
  overlapped,  \* history: a write was in progress during some read
  fed,         \* history: a letter has been written since the driver was loaded
  early,       \* history: a read began before that
  split        \* history: recv returned a part of a pattern

driver  == <<loaded, led, fed>>
letters == <<writer, letter, written>>
history == <<overlapped, early, split>>
chain    == <<driver, letters, reader, buf, stream, display, shown, history>>

Off == <<0, 0>>

DisplayInit ==
  /\ loaded = FALSE /\ led = [k \in Places |-> 0] /\ fed = FALSE
  /\ writer = "start" /\ letter = 1 /\ written = 0
  /\ reader = "start" /\ buf = << >>
  /\ stream = << >>
  /\ display = "polls" /\ shown = [k \in Places |-> Off]
  /\ overlapped = FALSE /\ early = FALSE /\ split = FALSE

-----------------------------------------------------------------------------
(* register_chrdev; if the number is taken, the driver is not loaded.        *)
Insmod ==
  /\ ~loaded /\ loaded' = TRUE
  /\ led' = [k \in Places |-> 0] /\ fed' = FALSE
  /\ UNCHANGED <<letters, reader, buf, stream, display, shown, history>>

InUse ==
  (writer = "open" /\ letter \in Letters) \/ reader \in {"read", "send"}

(* Removed by hand, once nobody has the device open. *)
Rmmod ==
  /\ loaded /\ ~InUse /\ loaded' = FALSE
  /\ UNCHANGED <<led, fed, letters, reader, buf, stream, display, shown, history>>

-----------------------------------------------------------------------------
(* open, which fails without the driver; writer goes on nevertheless.        *)
OpenWriter ==
  /\ writer = "start"
  /\ writer' = "shut" \/ (loaded /\ writer' = "open")
  /\ UNCHANGED <<driver, letter, written, reader, buf, stream, display, shown, history>>

(* write to no device, whose result writer does not look at. *)
LoseLetter ==
  /\ writer = "shut" /\ letter \in Letters /\ letter' = letter + 1
  /\ UNCHANGED <<driver, writer, written, reader, buf, stream, display, shown, history>>

Writing == written > 0

Copying == reader = "read" /\ buf # << >>

PatternEnd_short == Width - 1

PatternEnd == Width

(* A byte of strcpy(led, pattern); after the last one writer sleeps.  The    *)
(* terminating NUL is already there.                                         *)
WriteByte ==
  /\ writer = "open" /\ letter \in Letters
  /\ led' = [led EXCEPT ![written + 1] = letter]
  /\ IF written + 1 = PatternEnd
     THEN letter' = letter + 1 /\ written' = 0 /\ fed' = TRUE
     ELSE written' = written + 1 /\ UNCHANGED <<letter, fed>>
  /\ overlapped' = (overlapped \/ Copying)
  /\ UNCHANGED <<loaded, writer, reader, buf, stream, display, shown, early, split>>

-----------------------------------------------------------------------------
(* connect and open, either of which may fail. *)
Start ==
  /\ reader = "start"
  /\ reader' = "exited" \/ (loaded /\ reader' = "read")
  /\ UNCHANGED <<driver, letters, buf, stream, display, shown, history>>

ReadPlace == Len(buf) + 1

(* A byte of copy_to_user(buf, led, 17).  The 17th byte falls behind buf. *)
ReadByte ==
  /\ reader = "read"
  /\ buf' = Append(buf, <<led[ReadPlace], ReadPlace>>)
  /\ reader' = IF Len(buf) + 1 = Width THEN "send" ELSE "read"
  /\ overlapped' = (overlapped \/ Writing)
  /\ early' = (early \/ (buf = << >> /\ ~fed))
  /\ UNCHANGED <<driver, letters, stream, display, shown, split>>

Sent_oneShort == stream \o SubSeq(buf, 1, Width - 1)

Sent == stream \o buf

(* write(connfd, buf, 16), which blocks as long as there is no room. *)
Send ==
  /\ reader = "send" /\ Len(stream) + Width <= Buffer
  /\ stream' = Sent /\ buf' = << >> /\ reader' = "read"
  /\ UNCHANGED <<driver, letters, display, shown, history>>

(* sigint_handler closes both descriptors, and the next call on one fails.   *)
Interrupt ==
  /\ reader \in {"read", "send"} /\ reader' = "exited" /\ buf' = << >>
  /\ UNCHANGED <<driver, letters, stream, display, shown, history>>

-----------------------------------------------------------------------------
RecvSize_oneLess == Width - 1

RecvSize == Width

Zipped_oneLess(n) == 1 .. n - 1

(* The segments that zip pairs with the n bytes received. *)
Zipped(n) == 1 .. n

IsBit(byte) == byte[1] # 0

(* update, when recv returns n bytes: int() of every byte, then dig.show.    *)
(* An empty read, after the end of the stream, changes nothing.              *)
Update(n) ==
  /\ display = "polls" /\ n <= Len(stream)
  /\ stream' = SubSeq(stream, n + 1, Len(stream))
  /\ IF \A k \in 1 .. n : IsBit(stream[k])
     THEN /\ shown' = [k \in Places |-> IF k \in Zipped(n) THEN stream[k] ELSE shown[k]]
          /\ UNCHANGED display
     ELSE display' = "stopped" /\ UNCHANGED shown
  /\ split' = (split \/ n < RecvSize)
  /\ UNCHANGED <<driver, letters, reader, buf, overlapped, early>>

Write == OpenWriter \/ LoseLetter \/ WriteByte

Read == Start \/ ReadByte \/ Send

Show == \E n \in 1 .. RecvSize : Update(n)

DisplayNext == Insmod \/ Rmmod \/ Write \/ Read \/ Interrupt \/ Show

DisplaySpec == DisplayInit /\ [][DisplayNext]_chain

(* All the processes run; nobody has to load the driver or press control-C.  *)
DisplayFairSpec == DisplaySpec /\ WF_chain(Write) /\ WF_chain(Read) /\ WF_chain(Show)

-----------------------------------------------------------------------------
(* Every variable stays in its range. *)
DisplayTypeOK ==
  LET Byte == (0 .. Length) \X Places
  IN /\ loaded \in BOOLEAN /\ fed \in BOOLEAN /\ writer \in {"start", "open", "shut"}
     /\ led \in [Places -> 0 .. Length]
     /\ letter \in 1 .. Length + 1 /\ written \in 0 .. Width - 1
     /\ reader \in {"start", "read", "send", "exited"}
     /\ buf \in Seq(Byte) /\ Len(buf) <= Width
     /\ stream \in Seq(Byte) /\ Len(stream) <= Buffer
     /\ display \in {"polls", "stopped"}
     /\ shown \in [Places -> Byte \cup {Off}]
     /\ overlapped \in BOOLEAN /\ early \in BOOLEAN /\ split \in BOOLEAN

(* If no write and read of the driver overlapped and no pattern was split on *)
(* the way, the display shows all of one letter, each byte in its place.     *)
ShownIsWhole ==
  ~overlapped /\ ~split =>
    \E i \in 0 .. Length :
      \A k \in Places : shown[k] = IF i = 0 THEN Off ELSE <<i, k>>

(* The display only stops for ever if a read began before a first letter was *)
(* in the driver; overlapping and splitting never stop it.                   *)
StoppedByEarlyRead == display = "stopped" => early

(* Unless a pattern was split, no segment goes back to an earlier letter,    *)
(* even if reads and writes overlap.                                         *)
NeverGoesBack ==
  [][~split' => \A k \in Places : shown'[k][1] >= shown[k][1]]_chain

(* The display ends up with the last letter, whatever it missed, overlapped  *)
(* or mixed before, if writer has opened the device, the reader and the      *)
(* display go on and none is split.                                          *)
LastLetterStays ==
  [](writer # "shut" /\ reader # "exited" /\ display = "polls" /\ ~split) =>
    <>[](\A k \in Places : shown[k] = <<Length, k>>)

-----------------------------------------------------------------------------
(* What the code says, without the provisos above. *)

(* seg.py:57, update() shows what was received and polls again after 100 ms. *)
DisplayPolls == display = "polls"

=============================================================================

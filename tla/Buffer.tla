------------------------------- MODULE Buffer --------------------------------
(***************************************************************************)
(* The byte buffer of a connection (src/net/Buffer.h, Buffer.cc): a vector *)
(* with a reader and a writer index.  The operations that the repository   *)
(* uses, as operators on a buffer; cells[i + 1] is buffer_[i].             *)
(***************************************************************************)
EXTENDS Integers, Sequences

CONSTANTS kCheapPrepend, kInitialSize,
          kExtraSize      \* sizeof(extrabuf) in readFd

ASSUME BufferAssumption ==
  kCheapPrepend \in Nat /\ kInitialSize \in Nat /\ kExtraSize \in Nat

Blank(n) == [i \in 1 .. n |-> 0]

EmptyBuffer == [cells  |-> Blank(kCheapPrepend + kInitialSize),
                reader |-> kCheapPrepend,
                writer |-> kCheapPrepend]

readableBytes(b) == b.writer - b.reader
writableBytes(b) == Len(b.cells) - b.writer
prependableBytes(b) == b.reader

\* The bytes from peek() to beginWrite().
Content(b) == SubSeq(b.cells, b.reader + 1, b.writer)

retrieveAll(b) == [b EXCEPT !.reader = kCheapPrepend, !.writer = kCheapPrepend]

retrieve(b, len) ==
  IF len < readableBytes(b)
    THEN [b EXCEPT !.reader = @ + len]
    ELSE retrieveAll(b)

\* Mutant: the room that the prepend area must keep is forgotten.
MakeSpaceTooSmall(b, len) ==
  IF writableBytes(b) + prependableBytes(b) < len
    THEN [b EXCEPT !.cells = @ \o Blank(b.writer + len - Len(@))]
    ELSE [cells  |-> [i \in DOMAIN b.cells |->
                        IF i \in kCheapPrepend + 1 .. kCheapPrepend + readableBytes(b)
                          THEN b.cells[i - kCheapPrepend + b.reader]
                          ELSE b.cells[i]],
          reader |-> kCheapPrepend,
          writer |-> kCheapPrepend + readableBytes(b)]

\* Called with less room than len behind the writer: resize, or move the content
\* to the front.
makeSpace(b, len) ==
  IF writableBytes(b) + prependableBytes(b) < len + kCheapPrepend
    THEN [b EXCEPT !.cells = @ \o Blank(b.writer + len - Len(@))]
    ELSE [cells  |-> [i \in DOMAIN b.cells |->
                        IF i \in kCheapPrepend + 1 .. kCheapPrepend + readableBytes(b)
                          THEN b.cells[i - kCheapPrepend + b.reader]
                          ELSE b.cells[i]],
          reader |-> kCheapPrepend,
          writer |-> kCheapPrepend + readableBytes(b)]

ensureWritableBytes(b, len) == IF writableBytes(b) < len THEN makeSpace(b, len) ELSE b

\* Bytes copied to beginWrite(), where there is room for them.
Put(b, data) ==
  [b EXCEPT !.cells = [i \in DOMAIN b.cells |->
                         IF i \in b.writer + 1 .. b.writer + Len(data)
                           THEN data[i - b.writer] ELSE b.cells[i]],
            !.writer = @ + Len(data)]

append(b, data) == Put(ensureWritableBytes(b, Len(data)), data)

\* What readv may return at most: the second block is used only if the first is
\* the smaller.
ReadLimit(b) ==
  writableBytes(b) + (IF writableBytes(b) < kExtraSize THEN kExtraSize ELSE 0)

\* readFd, when readv has returned data.
readFd(b, data) ==
  LET first == writableBytes(b) IN
  IF Len(data) <= first
    THEN Put(b, data)
    ELSE append(Put(b, SubSeq(data, 1, first)), SubSeq(data, first + 1, Len(data)))

\* The indices are in order and inside the vector, and the prepend area is kept.
BufferOK(b) ==
  /\ kCheapPrepend <= b.reader /\ b.reader <= b.writer
  /\ b.writer <= Len(b.cells)
=============================================================================

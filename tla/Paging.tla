------------------------------- MODULE Paging -------------------------------
(* Pages for radio pagers (POCSAGEncoder.cpp): the first page of a            *)
(* transmission is encoded, and the pages waiting behind it are appended until *)
(* one does not fit (CommThread.cpp).                                          *)
(*                                                                             *)
(* A transmission is a sequence of words in batches of 17, a synch word and    *)
(* eight frames of two words; a pager listens in one frame only.  A data word  *)
(* is named by the page and its place in it, and its 32 bits are a function of *)
(* the name; the inversion on the air is left out.                             *)
EXTENDS Integers, Sequences, SequencesExt

BCH == INSTANCE BCHEncoder

CONSTANTS Pages,     \* [capCode, type, length] of the messages to send
          Text(_, _),  \* the character of a page at an index from 0, as ASCII
          MaxPages,  \* bound: pages of one transmission
          MaxBytes   \* the size append may fill (480)

POCSAG_WORD_PER_BATCH == 17
POCSAG_MAX_BATCH_PER_TX == 8
POCSAG_PREAMBLE_LENGTH == 72
POCSAG_DATA_BIT_PER_WORD == 20
BitsPerCharacter == [Alpha |-> 7, Numeric |-> 4]
BufferSize == POCSAG_WORD_PER_BATCH * POCSAG_MAX_BATCH_PER_TX

ASSUME PagingAssumption ==
  /\ Pages \subseteq [capCode : Nat, type : {"Alpha", "Numeric"}, length : Nat]
  /\ \A p \in Pages : \A i \in 0..p.length - 1 : Text(p, i) \in 0..127
  /\ MaxPages \in Nat \ {0}
  /\ MaxBytes \in Nat /\ MaxBytes <= POCSAG_PREAMBLE_LENGTH + 4 * BufferSize

Synch == [kind |-> "synch"]
Idle == [kind |-> "idle"]
Unset == [kind |-> "unset"]   \* whatever was on the stack
Address(p) == [kind |-> "address", address |-> p.capCode \div 8, type |-> p.type]
Data(p, k) == [kind |-> "data", of |-> p, k |-> k]

---------------------------------------------------------------------------
(* The 32 bits of a word.                                                    *)

POCSAG_IDLE_CODEWORD ==
  {30, 29, 28, 27, 25, 23, 19, 16, 15, 14, 8, 7, 4, 2, 1, 0}   \* 0x7A89C197
POCSAG_SYNCH_CODEWORD ==
  {30, 29, 28, 27, 26, 23, 22, 20, 17, 12, 10, 8, 7, 6, 4, 3}  \* 0x7CD215D8

BitsOf(number, width) == {i \in 0..width - 1 : (number \div 2^i) % 2 = 1}

POCSAG_NUMERIC_SPACE_CHARACTER == 12
NumericValue(c) ==
  CASE c \in 48..57 -> c - 48
    [] c = 85 -> 11      \* U, the urgency indicator
    [] c = 45 -> 13      \* -
    [] c = 41 -> 14      \* )
    [] c = 40 -> 15      \* (
    [] OTHER -> POCSAG_NUMERIC_SPACE_CHARACTER

\* The last word is filled up with nulls or spaces.
CharacterCode(p, i) ==
  IF p.type = "Alpha" THEN IF i < p.length THEN Text(p, i) ELSE 0
  ELSE IF i < p.length THEN NumericValue(Text(p, i))
  ELSE POCSAG_NUMERIC_SPACE_CHARACTER

\* The bits of the characters follow each other, the lowest first.
MessageBit(p, b) ==
  LET width == BitsPerCharacter[p.type]
  IN b % width \in BitsOf(CharacterCode(p, b \div width), width)

AddressData(w) ==
  {13 + i : i \in BitsOf(w.address, 19)}
  \cup (IF w.type = "Alpha" THEN {11, 12} ELSE {})
MessageData(w) ==
  LET first == (w.k - 1) * POCSAG_DATA_BIT_PER_WORD
  IN {31} \cup {30 - j : j \in {b \in 0..POCSAG_DATA_BIT_PER_WORD - 1 : MessageBit(w.of, first + b)}}

CodeWord(w) ==
  CASE w = Synch -> POCSAG_SYNCH_CODEWORD
    [] w = Idle -> POCSAG_IDLE_CODEWORD
    [] w.kind = "address" -> BCH!GetEncodedData(AddressData(w))
    [] w.kind = "data" -> BCH!GetEncodedData(MessageData(w))

---------------------------------------------------------------------------

VARIABLES
  words,    \* the transmission behind its preamble, <<>> for none
  pages,    \* the pages it was given
  open      \* whether more are appended to it

vars == <<words, pages, open>>

Init == words = <<>> /\ pages = <<>> /\ open = FALSE

---------------------------------------------------------------------------
(* One page in a buffer of its own, indexed from 0.                          *)

startIndex(p) == (p.capCode % 8) * 2 + 1

\* Rounded up to whole words.
wordCount(p) ==
  (p.length * BitsPerCharacter[p.type] + POCSAG_DATA_BIT_PER_WORD - 1) \div POCSAG_DATA_BIT_PER_WORD

\* The last word: one more for every synch word on the way, which may put
\* another one on it.  The loop is a function of i and *endIndex.
endIndex(p) ==
  LET end[loop \in Nat \X Nat] ==
        LET i == loop[1]
            e == loop[2]
        IN IF i > e THEN e
           ELSE end[<<i + 1, IF i % POCSAG_WORD_PER_BATCH = 0 THEN e + 1 ELSE e>>]
  IN end[<<startIndex(p), startIndex(p) + wordCount(p)>>]

Fits(p) == endIndex(p) < BufferSize

\* Which word of the page is at i, 0 for its address: synch words are stepped
\* over.
WordAt(p, i) == i - startIndex(p) - i \div POCSAG_WORD_PER_BATCH

\* The words from first up to last.  When the page does not fit the buffer is
\* left as it was, and no caller asks.
buildFrame(p, first, last) ==
  LET fits == Fits(p)
      start == startIndex(p)
      count == wordCount(p)
      word(i) ==
        IF ~fits THEN Unset
        ELSE IF i % POCSAG_WORD_PER_BATCH = 0 THEN Synch
        ELSE IF i = start THEN Address(p)
        ELSE IF WordAt(p, i) \in 1..count THEN Data(p, WordAt(p, i))
        ELSE Idle
  IN [i \in 1..last - first |-> word(first + i - 1)]

\* Up to whole batches.
BatchEnd(p) ==
  LET e == endIndex(p)
  IN IF e % POCSAG_WORD_PER_BATCH = 0 THEN e
     ELSE e + POCSAG_WORD_PER_BATCH - (e % POCSAG_WORD_PER_BATCH)

\* The words of a page, and those append takes for idle and synch words when it
\* compares their bits.
WordsOf(p) == {Address(p)} \cup {Data(p, k) : k \in 1..wordCount(p)}
AllWords == {Synch, Idle} \cup UNION {WordsOf(p) : p \in Pages}
IdleWords == {w \in AllWords : CodeWord(w) = POCSAG_IDLE_CODEWORD}
SynchWords == {w \in AllWords : CodeWord(w) = POCSAG_SYNCH_CODEWORD}

---------------------------------------------------------------------------
(* The transmission.                                                         *)

encode(p) ==
  /\ ~open
  /\ words' = buildFrame(p, 0, BatchEnd(p))
  /\ pages' = <<p>> /\ open' = TRUE

\* Behind the last word that does not look idle or synch.  Words nobody set are
\* taken not to: behind them every page is refused for its length.
FirstAvailable ==
  LET used == {i \in 1..Len(words) : words[i] \notin IdleWords \cup SynchWords}
  IN IF used = {} THEN 0 ELSE CHOOSE i \in used : \A j \in used : j <= i

\* Its frame of the last batch.
Here(p) == Len(words) - POCSAG_WORD_PER_BATCH + startIndex(p)

NotLooked(p) == FALSE             \* mutant: always in the last batch
AnyEnd(p) == FALSE                \* mutant: the last word is not looked at
StaysAsLong(p) == Len(words)      \* mutant: new batches are not counted

\* An address behind data and a synch word is not for every receiver.
NeedsPreamble(p) == startIndex(p) = 1 /\ words[Len(words)] \notin IdleWords

\* Nor is one right behind data: the frame must begin behind an idle word.
NewBatch(p) == Here(p) <= FirstAvailable

Appended(p) ==
  IF NewBatch(p) THEN words \o buildFrame(p, 0, BatchEnd(p))
  ELSE SubSeq(words, 1, Here(p)) \o buildFrame(p, startIndex(p), BatchEnd(p))

NewLength(p) ==
  IF NewBatch(p) THEN Len(words) + BatchEnd(p)
  ELSE Len(words) + BatchEnd(p) - POCSAG_WORD_PER_BATCH

Refused(p) ==
  \/ NeedsPreamble(p)
  \/ POCSAG_PREAMBLE_LENGTH + 4 * NewLength(p) >= MaxBytes

append(p) ==
  /\ open /\ Len(pages) < MaxPages /\ ~Refused(p)
  /\ words' = Appended(p)
  /\ pages' = Append(pages, p)
  /\ UNCHANGED open

\* It is handed to the modem: no pages are waiting, or the next one was refused
\* and will begin another transmission.
Send ==
  /\ open /\ open' = FALSE
  /\ words' = <<>> /\ pages' = <<>>

Refuse(p) == open /\ Refused(p) /\ Send

Next == Send \/ \E p \in Pages : encode(p) \/ append(p) \/ Refuse(p)

Spec == Init /\ [][Next]_vars

---------------------------------------------------------------------------
(* What is on the air.                                                       *)

\* A transmission is whole batches, each with its synch word in front and
\* nowhere else, and append never fills the buffer of the caller.
TypeOK ==
  /\ open \in BOOLEAN /\ pages \in Seq(Pages) /\ Len(pages) <= MaxPages
  /\ Len(words) % POCSAG_WORD_PER_BATCH = 0
  /\ (pages # <<>> /\ Fits(pages[1])) =>
       \A i \in 1..Len(words) : words[i] = Synch <=> i % POCSAG_WORD_PER_BATCH = 1
  /\ Len(pages) > 1 => POCSAG_PREAMBLE_LENGTH + 4 * Len(words) < MaxBytes

\* The addresses a pager that listens in frame capCode % 8 takes for its own, and
\* the data words it hears behind one, up to the next idle word or address.
Frame(i) == (((i - 1) % POCSAG_WORD_PER_BATCH) - 1) \div 2
Calls(cap) ==
  {i \in 1..Len(words) :
     /\ words[i].kind = "address" /\ words[i].address = cap \div 8
     /\ (i - 1) % POCSAG_WORD_PER_BATCH # 0 /\ Frame(i) = cap % 8}
Behind(i) ==
  {j \in i + 1..Len(words) :
     words[j] # Synch /\ \A n \in i + 1..j : words[n] = Synch \/ words[n].kind = "data"}

Rank(i, S) == Cardinality({j \in S : j <= i})
Hears(i, p) ==
  /\ words[i].type = p.type /\ Cardinality(Behind(i)) = wordCount(p)
  /\ \A j \in Behind(i) : words[j] = Data(p, Rank(j, Behind(i)))

\* Every pager hears exactly the pages for it that were taken into the
\* transmission, in their order, each complete and of its type, whatever pages
\* for other pagers and frames were put between them.  Only a first page longer
\* than eight batches is lost with all that was to follow, and a page may be lost
\* whose words look idle (PagingIdle.cfg).
EveryPagerHearsItsPages ==
  (pages # <<>> /\ Fits(pages[1])) =>
    \A cap \in {p.capCode : p \in Pages} :
      LET sent == {n \in 1..Len(pages) : pages[n].capCode = cap}
      IN /\ Cardinality(Calls(cap)) = Cardinality(sent)
         /\ \A i \in Calls(cap), n \in sent :
              Rank(i, Calls(cap)) = Rank(n, sent) => Hears(i, pages[n])

\* "Some paging receivers can't handle an address immediately following data",
\* nor "<data><sync><new address>": an idle word comes between two pages.  The
\* last word in front of an address that is not a synch word, if any, is idle.
GapBeforeAddress ==
  \A i \in 1..Len(words) : \A j \in 1..i - 1 :
    /\ words[i].kind = "address"
    /\ words[j] # Synch /\ \A n \in j + 1..i - 1 : words[n] = Synch
    => words[j] = Idle

\* No word of a page has the bits of an idle or a synch word.  A numeric page to
\* one of the cap codes 2007664 to 2007671 has, its address.
NoneLooksIdle ==
  \A p \in Pages : \A w \in WordsOf(p) :
    CodeWord(w) \notin {POCSAG_SYNCH_CODEWORD, POCSAG_IDLE_CODEWORD}

\* Every word on the air is one a receiver can check: of even parity, with the
\* first four powers of alpha as its roots; and only idle and synch words have
\* the bits of one.
GoodWords ==
  {w \in AllWords :
     /\ BCH!IsCodeword(CodeWord(w))
     /\ w \in {Synch, Idle} <=> w \in IdleWords \cup SynchWords}
WordsAreCodewords ==
  (pages # <<>> /\ Fits(pages[1])) => \A i \in 1..Len(words) : words[i] \in GoodWords
=============================================================================

---------------------------- MODULE PagingProofs ----------------------------
(* Transmissions of pages, for any pages, texts and number of pages, as long*)
(* as append may not fill more than eight batches.                          *)
(*                                                                          *)
(* The invariant says where every page is: its address, the data behind it, *)
(* counted without the synch words, and what must not follow it. With that, *)
(* the promises to a pager follow by counting the words it hears.           *)
EXTENDS Paging, TLAPS, FiniteSetTheorems, WellFoundedInduction

-----------------------------------------------------------------------------
(* The loop that finds the last word of a page.                             *)

(* A set of numbers has a smallest one: the order of Nat is well-founded.   *)
LEMMA LeastNumber ==
  ASSUME NEW S, S \subseteq Nat, S # {}
  PROVE  \E x \in S : \A y \in S : x <= y
<1>1. IsWellFoundedOn(OpToRel(<, Nat), Nat)
  BY NatLessThanWellFounded
<1>2. PICK x \in S : \A y \in S : <<y, x>> \notin OpToRel(<, Nat)
  BY <1>1, WFMin
<1>3. \A y \in S : ~(y < x)
  BY <1>2 DEF OpToRel
<1>4. \A y \in S : x <= y
  <2> TAKE y \in S
  <2>1. x \in Nat /\ y \in Nat /\ ~(y < x)
    BY <1>3
  <2> QED BY <2>1
<1> QED BY <1>4

(* What defines the loop of buildFrame as a function of i and *endIndex.    *)
Loop(f) ==
  f = [loop \in Nat \X Nat |->
         LET i == loop[1]
             e == loop[2]
         IN IF i > e THEN e
            ELSE f[<<i + 1, IF i % POCSAG_WORD_PER_BATCH = 0 THEN e + 1 ELSE e>>]]

(* A closed form of its result: a function of this kind exists.             *)
Ends(i, e) == LET k == e - (i - 1) \div 17 IN IF i > e THEN e ELSE k + (k - 1) \div 16

(* One turn of the loop does not change the closed form.                    *)
LEMMA EndsStep ==
  ASSUME NEW i \in Nat, NEW e \in Nat, i <= e
  PROVE  Ends(i, e) = Ends(i + 1, IF i % 17 = 0 THEN e + 1 ELSE e)
<1>1. PICK q \in Int, r \in 0..16 : i = 17 * q + r /\ q = i \div 17 /\ r = i % 17
  OBVIOUS
<1>2. CASE r = 0
  <2>1. (i - 1) \div 17 = q - 1 /\ i \div 17 = q
    BY <1>1, <1>2
  <2> QED BY <1>1, <1>2, <2>1 DEF Ends
<1>3. CASE r # 0 /\ i < e
  <2>1. (i - 1) \div 17 = q /\ i \div 17 = q
    BY <1>1, <1>3
  <2> QED BY <1>1, <1>3, <2>1 DEF Ends
<1>4. CASE r # 0 /\ i = e
  <2>1. (i - 1) \div 17 = q
    BY <1>1, <1>4
  <2>2. (e - q - 1) \div 16 = q
    <3>1. e - q - 1 = 16 * q + (r - 1) /\ r - 1 \in 0..15
      BY <1>1, <1>4
    <3> QED BY <1>1, <3>1
  <2> QED BY <1>1, <1>4, <2>1, <2>2 DEF Ends
<1> QED BY <1>1, <1>2, <1>3, <1>4

(* So the closed form is such a function.                                   *)
LEMMA LoopExists == \E f : Loop(f)
<1> DEFINE f == [loop \in Nat \X Nat |-> Ends(loop[1], loop[2])]
<1>1. ASSUME NEW loop \in Nat \X Nat
      PROVE  f[loop] = IF loop[1] > loop[2] THEN loop[2]
                       ELSE f[<<loop[1] + 1, IF loop[1] % POCSAG_WORD_PER_BATCH = 0 THEN loop[2] + 1 ELSE loop[2]>>]
  <2>1. loop[1] \in Nat /\ loop[2] \in Nat /\ f[loop] = Ends(loop[1], loop[2])
    OBVIOUS
  <2>2. CASE loop[1] > loop[2]
    BY <2>1, <2>2 DEF Ends
  <2>3. CASE ~(loop[1] > loop[2])
    <3> DEFINE next == <<loop[1] + 1, IF loop[1] % 17 = 0 THEN loop[2] + 1 ELSE loop[2]>>
    <3>1. next \in Nat \X Nat /\ next[1] = loop[1] + 1
          /\ next[2] = IF loop[1] % 17 = 0 THEN loop[2] + 1 ELSE loop[2]
      BY <2>1
    <3>2. f[next] = Ends(next[1], next[2])
      BY <3>1
    <3>3. loop[1] <= loop[2]
      BY <2>1, <2>3
    <3>4. Ends(loop[1], loop[2]) = Ends(next[1], next[2])
      BY <2>1, <3>1, <3>3, EndsStep
    <3> HIDE DEF f
    <3> QED BY <2>1, <2>3, <3>2, <3>4 DEF POCSAG_WORD_PER_BATCH
  <2> QED BY <2>2, <2>3
<1>2. Loop(f)
  <2>1. f = [loop \in Nat \X Nat |-> f[loop]]
    OBVIOUS
  <2> HIDE DEF f
  <2> QED BY <1>1, <2>1 DEF Loop
<1> QED BY <1>2

(* The last word of a page is what the loop returns.                        *)
LEMMA EndIndexLoops ==
  ASSUME NEW p
  PROVE  \E f : Loop(f) /\ endIndex(p) = f[<<startIndex(p), startIndex(p) + wordCount(p)>>]
<1> DEFINE f == CHOOSE g : g = [loop \in Nat \X Nat |->
         LET i == loop[1]
             e == loop[2]
         IN IF i > e THEN e
            ELSE g[<<i + 1, IF i % POCSAG_WORD_PER_BATCH = 0 THEN e + 1 ELSE e>>]]
<1>1. Loop(f)
  BY LoopExists DEF Loop
<1>2. endIndex(p) = f[<<startIndex(p), startIndex(p) + wordCount(p)>>]
  BY DEF endIndex
<1> HIDE DEF f
<1> QED BY <1>1, <1>2

(* The loop runs; the turns it has left, at most; and what it returns: no   *)
(* synch word, and as many words that are not synch words before it as were *)
(* asked for.                                                               *)
Running(i, e) == i \in Nat /\ e \in Nat /\ 1 <= i /\ i <= e + 1 /\ (e % 17 = 0 => i <= e)

Steps(i, e) == 2 * (e + 1 - i) + (IF i % 17 = 0 THEN 1 ELSE 0)

IsEnd(r, i, e) ==
  /\ r \in Nat /\ r >= e /\ r % 17 # 0
  /\ r - r \div 17 = e - (i - 1) \div 17

(* A turn leaves fewer turns, and what the rest of them returns is right for*)
(* it.                                                                      *)
LEMMA RunningStep ==
  ASSUME NEW i, NEW e, Running(i, e), i <= e
  PROVE  LET d == IF i % 17 = 0 THEN e + 1 ELSE e
         IN /\ Running(i + 1, d) /\ Steps(i + 1, d) < Steps(i, e)
            /\ Steps(i + 1, d) \in Nat /\ Steps(i, e) \in Nat
            /\ \A r : IsEnd(r, i + 1, d) => IsEnd(r, i, e)
<1>1. PICK q \in Int, r \in 0..16 : i = 17 * q + r /\ q = i \div 17 /\ r = i % 17
  BY DEF Running
<1>2. CASE r = 0
  <2>1. (i - 1) \div 17 = q - 1 /\ i \div 17 = q /\ (i + 1) % 17 = 1 /\ i % 17 = 0
    BY <1>1, <1>2
  <2> QED BY <1>1, <1>2, <2>1 DEF Running, Steps, IsEnd
<1>3. CASE r # 0
  <2>1. (i - 1) \div 17 = q /\ i \div 17 = q /\ i % 17 # 0
    BY <1>1, <1>3
  <2>2. e % 17 = 0 => i # e
    BY <2>1
  <2> QED BY <1>1, <1>3, <2>1, <2>2 DEF Running, Steps, IsEnd
<1> QED BY <1>2, <1>3

(* The loop ends with the right index: a least number of turns with another *)
(* one would have a smaller one behind it.                                  *)
LEMMA LoopEnds ==
  ASSUME NEW f, Loop(f), NEW i, NEW e, Running(i, e)
  PROVE  IsEnd(f[<<i, e>>], i, e)
<1> DEFINE Bad == {n \in Nat : \E j \in Nat, d \in Nat : Running(j, d) /\ n = Steps(j, d) /\ ~IsEnd(f[<<j, d>>], j, d)}
<1>1. SUFFICES ASSUME ~IsEnd(f[<<i, e>>], i, e) PROVE FALSE
  OBVIOUS
<1>2. Bad # {}
  <2>1. i \in Nat /\ e \in Nat /\ Steps(i, e) \in Nat
    BY DEF Running, Steps
  <2> QED BY <1>1, <2>1
<1>3. PICK n \in Bad : \A k \in Bad : n <= k
  <2>1. Bad \subseteq Nat
    OBVIOUS
  <2> HIDE DEF Bad
  <2> QED BY <1>2, <2>1, LeastNumber
<1>4. PICK j \in Nat, d \in Nat : Running(j, d) /\ n = Steps(j, d) /\ ~IsEnd(f[<<j, d>>], j, d)
  BY <1>3
<1> DEFINE next == <<j + 1, IF j % 17 = 0 THEN d + 1 ELSE d>>
<1>5. f[<<j, d>>] = IF j > d THEN d ELSE f[next]
  <2>1. <<j, d>> \in Nat \X Nat /\ <<j, d>>[1] = j /\ <<j, d>>[2] = d
    BY <1>4
  <2> QED BY <2>1 DEF Loop, POCSAG_WORD_PER_BATCH
<1>6. CASE j > d
  <2>1. f[<<j, d>>] = d /\ d = j - 1
    BY <1>4, <1>5, <1>6 DEF Running
  <2>2. IsEnd(d, j, d)
    BY <1>4, <1>6, <2>1 DEF IsEnd, Running
  <2> QED BY <1>4, <2>1, <2>2
<1>7. CASE ~(j > d)
  <2> DEFINE c == IF j % 17 = 0 THEN d + 1 ELSE d
  <2>1. j <= d /\ c \in Nat /\ j + 1 \in Nat
    BY <1>7
  <2>2. /\ Running(j + 1, c) /\ Steps(j + 1, c) < n /\ Steps(j + 1, c) \in Nat
        /\ ~IsEnd(f[<<j + 1, c>>], j + 1, c)
    <3>1. f[<<j, d>>] = f[<<j + 1, c>>]
      BY <1>5, <1>7
    <3> QED BY <1>4, <2>1, <3>1, RunningStep
  <2> HIDE DEF c
  <2>3. Steps(j + 1, c) \in Bad
    BY <2>1, <2>2
  <2>4. n <= Steps(j + 1, c)
    BY <1>3, <2>3
  <2>5. n \in Nat
    BY <1>3
  <2> QED BY <2>2, <2>4, <2>5
<1> QED BY <1>6, <1>7

Page(p) == p \in [capCode : Nat, type : {"Alpha", "Numeric"}, length : Nat]

(* Where a page begins and ends.                                            *)
LEMMA EndIndex ==
  ASSUME NEW p, Page(p)
  PROVE  /\ startIndex(p) \in {1, 3, 5, 7, 9, 11, 13, 15} /\ wordCount(p) \in Nat
         /\ endIndex(p) \in Nat /\ endIndex(p) >= startIndex(p) /\ endIndex(p) % 17 # 0
         /\ endIndex(p) - endIndex(p) \div 17 = startIndex(p) + wordCount(p)
<1>1. startIndex(p) \in {1, 3, 5, 7, 9, 11, 13, 15}
  BY DEF Page, startIndex
<1>2. wordCount(p) \in Nat
  <2>1. p.length \in Nat /\ BitsPerCharacter[p.type] \in {4, 7}
    BY DEF Page, BitsPerCharacter
  <2>2. p.length * 4 \in Nat /\ p.length * 7 \in Nat
    BY <2>1
  <2> QED BY <2>1, <2>2 DEF wordCount, POCSAG_DATA_BIT_PER_WORD
<1>3. PICK f : Loop(f) /\ endIndex(p) = f[<<startIndex(p), startIndex(p) + wordCount(p)>>]
  BY EndIndexLoops
<1> DEFINE s == startIndex(p)
           e == startIndex(p) + wordCount(p)
<1>4. s \in 1..16 /\ e \in Nat /\ e >= s /\ (s - 1) \div 17 = 0
  BY <1>1, <1>2
<1>5. e % 17 = 0 => s <= e
  BY <1>4
<1> HIDE DEF s, e
<1>6. IsEnd(f[<<s, e>>], s, e)
  BY <1>3, <1>4, <1>5, LoopEnds DEF Running
<1> QED BY <1>1, <1>2, <1>3, <1>4, <1>6 DEF s, e, IsEnd

-----------------------------------------------------------------------------
(* One page in a buffer of its own.                                         *)

(* All words, and the word of a page at an index of its buffer.             *)
Words == {Synch, Idle, Unset} \cup {Address(p) : p \in Pages} \cup {Data(p, k) : p \in Pages, k \in Nat}

WordOf(p, i) ==
  IF i % 17 = 0 THEN Synch
  ELSE IF i = startIndex(p) THEN Address(p)
  ELSE IF WordAt(p, i) \in 1..wordCount(p) THEN Data(p, WordAt(p, i))
  ELSE Idle

(* Words of different kinds differ.                                         *)
LEMMA Kinds ==
  /\ Synch.kind = "synch" /\ Idle.kind = "idle" /\ Unset.kind = "unset"
  /\ \A p : Address(p).kind = "address"
  /\ \A p, k : Data(p, k).kind = "data"
BY DEF Synch, Idle, Unset, Address, Data

(* The assumption on the constant, for one page.                            *)
LEMMA PagesArePages == \A p \in Pages : Page(p)
BY PagingAssumption DEF Page

(* A page is rounded up to whole batches; one that does not fit takes all   *)
(* eight.                                                                   *)
LEMMA WholeBatches ==
  ASSUME NEW p \in Pages
  PROVE  /\ BatchEnd(p) \in Nat /\ BatchEnd(p) % 17 = 0 /\ BatchEnd(p) >= 17
         /\ endIndex(p) < BatchEnd(p) /\ BatchEnd(p) - 17 < endIndex(p)
         /\ ~Fits(p) => BatchEnd(p) >= 136
<1>1. endIndex(p) \in Nat /\ endIndex(p) >= 1 /\ endIndex(p) % 17 # 0
  BY EndIndex, PagesArePages
<1> DEFINE e == endIndex(p)
<1>2. PICK q \in Int, r \in 1..16 : e = 17 * q + r /\ r = e % 17
  BY <1>1
<1>3. BatchEnd(p) = 17 * q + 17
  BY <1>1, <1>2 DEF BatchEnd, POCSAG_WORD_PER_BATCH
<1>4. (17 * q + 17) % 17 = 0
  OBVIOUS
<1>5. ~Fits(p) => e >= 136
  BY <1>1 DEF Fits, BufferSize, POCSAG_WORD_PER_BATCH, POCSAG_MAX_BATCH_PER_TX
<1> HIDE DEF e
<1>6. q >= 0
  BY <1>1, <1>2 DEF e
<1> QED BY <1>1, <1>2, <1>3, <1>4, <1>5, <1>6 DEF e

(* In the buffer of a page that fits, synch words are at the multiples of   *)
(* 17, the address at its start, idle words before it, and the last word is *)
(* its own.                                                                 *)
LEMMA FrameWords ==
  ASSUME NEW p \in Pages, Fits(p), NEW i \in Nat
  PROVE  /\ WordOf(p, i) \in Words /\ WordOf(p, i) # Unset
         /\ WordOf(p, i) = Synch <=> i % 17 = 0
         /\ WordOf(p, i).kind = "address" <=> i = startIndex(p)
         /\ i \in 1..startIndex(p) - 1 => WordOf(p, i) = Idle
         /\ i = endIndex(p) => WordOf(p, i) \notin {Synch, Idle}
<1>1. /\ startIndex(p) \in {1, 3, 5, 7, 9, 11, 13, 15} /\ wordCount(p) \in Nat
      /\ endIndex(p) \in Nat /\ endIndex(p) >= startIndex(p) /\ endIndex(p) % 17 # 0
      /\ endIndex(p) - endIndex(p) \div 17 = startIndex(p) + wordCount(p)
  BY EndIndex, PagesArePages
<1>2. WordAt(p, i) = i - startIndex(p) - i \div 17 /\ WordAt(p, i) \in Int
  BY <1>1 DEF WordAt, POCSAG_WORD_PER_BATCH
<1>3. WordOf(p, i) \in Words
  BY <1>1, <1>2 DEF WordOf, Words
<1>4. startIndex(p) % 17 # 0
  BY <1>1
<1>5. WordOf(p, i) # Unset /\ (WordOf(p, i) = Synch <=> i % 17 = 0) /\ (WordOf(p, i).kind = "address" <=> i = startIndex(p))
  BY <1>4, Kinds DEF WordOf
<1>6. i \in 1..startIndex(p) - 1 => WordOf(p, i) = Idle
  <2> HAVE i \in 1..startIndex(p) - 1
  <2>1. i % 17 # 0 /\ i # startIndex(p) /\ i \div 17 = 0 /\ WordAt(p, i) < 0
    BY <1>1, <1>2
  <2> QED BY <2>1, <1>1, <1>2 DEF WordOf
<1>7. i = endIndex(p) => WordOf(p, i) \notin {Synch, Idle}
  <2> HAVE i = endIndex(p)
  <2>1. WordAt(p, i) = wordCount(p)
    BY <1>1, <1>2
  <2>2. i # startIndex(p) => wordCount(p) >= 1
    <3> HAVE i # startIndex(p)
    <3>1. i > startIndex(p) /\ i - i \div 17 = startIndex(p) + wordCount(p)
      BY <1>1
    <3>2. CASE i < 17
      <4>1. i \div 17 = 0
        BY <3>2
      <4>2. startIndex(p) \in Int
        BY <1>1
      <4>3. i = startIndex(p) + wordCount(p) /\ i > startIndex(p)
        BY <3>1, <4>1
      <4> QED BY <1>1, <4>2, <4>3
    <3>3. CASE i >= 17
      <4>1. i - i \div 17 >= 16
        BY <3>3
      <4>2. startIndex(p) \in 1..15
        BY <1>1
      <4>3. startIndex(p) + wordCount(p) >= 16
        BY <3>1, <4>1
      <4> QED BY <1>1, <4>2, <4>3
    <3> QED BY <3>2, <3>3
  <2>3. WordOf(p, i) = IF i = startIndex(p) THEN Address(p) ELSE Data(p, WordAt(p, i))
    BY <1>1, <2>1, <2>2 DEF WordOf
  <2> QED BY <2>3, Kinds
<1> QED BY <1>3, <1>5, <1>6, <1>7

(* What buildFrame copies are these words.                                  *)
LEMMA BuiltFrame ==
  ASSUME NEW p \in Pages, Fits(p), NEW first \in Nat, NEW last \in Nat, first <= last
  PROVE  /\ buildFrame(p, first, last) \in Seq(Words)
         /\ Len(buildFrame(p, first, last)) = last - first
         /\ \A i \in 1..last - first : buildFrame(p, first, last)[i] = WordOf(p, first + i - 1)
<1> DEFINE f == [i \in 1..last - first |-> WordOf(p, first + i - 1)]
<1>1. buildFrame(p, first, last) = f
  BY DEF buildFrame, WordOf, POCSAG_WORD_PER_BATCH
<1>2. \A i \in 1..last - first : WordOf(p, first + i - 1) \in Words
  BY FrameWords
<1>3. last - first \in Nat
  OBVIOUS
<1>4. f \in Seq(Words) /\ Len(f) = last - first
  BY <1>2, <1>3
<1> QED BY <1>1, <1>4

(* Of a page that does not fit nothing is copied that could be read.        *)
LEMMA NoFrame ==
  ASSUME NEW p \in Pages, ~Fits(p), NEW last \in Nat
  PROVE  /\ buildFrame(p, 0, last) \in Seq(Words) /\ Len(buildFrame(p, 0, last)) = last
         /\ \A i \in 1..last : buildFrame(p, 0, last)[i] = Unset
<1> DEFINE f == [i \in 1..last |-> Unset]
<1>1. buildFrame(p, 0, last) = f
  BY DEF buildFrame
<1>2. Unset \in Words
  BY DEF Words
<1>3. f \in Seq(Words) /\ Len(f) = last
  BY <1>2
<1> QED BY <1>1, <1>3

-----------------------------------------------------------------------------
(* Whole batches, the last of them with a word of a page in it.             *)

(* Synch words begin the batches, the last batch is in use, and no address  *)
(* follows data: what each page keeps true of a transmission.               *)
Synched(w) == \A i \in 1..Len(w) : w[i] = Synch <=> i % POCSAG_WORD_PER_BATCH = 1

Whole(w) == w \in Seq(Words) /\ Len(w) % 17 = 0 /\ Len(w) >= 17 /\ Synched(w)

UsedToTheEnd(w) == \E j \in Len(w) - 15..Len(w) : w[j] \notin {Synch, Idle}

Gaps(w) ==
  \A i \in 1..Len(w) : \A j \in 1..i - 1 :
    /\ w[i].kind = "address"
    /\ w[j] # Synch /\ \A n \in j + 1..i - 1 : w[n] = Synch
    => w[j] = Idle

Transmission(w) == Whole(w) /\ UsedToTheEnd(w) /\ Gaps(w)

(* It is true of the first page.                                            *)
LEMMA FirstPage ==
  ASSUME NEW p \in Pages, Fits(p)
  PROVE  LET f == buildFrame(p, 0, BatchEnd(p))
         IN /\ Transmission(f) /\ Len(f) = BatchEnd(p)
            /\ \A i \in 1..BatchEnd(p) : f[i] = WordOf(p, i - 1)
<1> DEFINE f == buildFrame(p, 0, BatchEnd(p))
           B == BatchEnd(p)
<1>1. B \in Nat /\ B % 17 = 0 /\ B >= 17 /\ endIndex(p) < B /\ B - 17 < endIndex(p)
  BY WholeBatches
<1>2. f \in Seq(Words) /\ Len(f) = B /\ \A i \in 1..B : f[i] = WordOf(p, i - 1)
  <2>1. ASSUME NEW b \in Nat
        PROVE  LET F == buildFrame(p, 0, b)
               IN F \in Seq(Words) /\ Len(F) = b /\ \A i \in 1..b : F[i] = WordOf(p, i - 1)
    <3>1. 0 \in Nat /\ 0 <= b
      OBVIOUS
    <3>2. /\ buildFrame(p, 0, b) \in Seq(Words) /\ Len(buildFrame(p, 0, b)) = b - 0
          /\ \A i \in 1..b - 0 : buildFrame(p, 0, b)[i] = WordOf(p, 0 + i - 1)
      BY <3>1, BuiltFrame, Zenon
    <3>3. b - 0 = b /\ \A i \in 1..b : 0 + i - 1 = i - 1
      OBVIOUS
    <3> QED BY <3>2, <3>3
  <2> QED BY <1>1, <2>1
<1>3. startIndex(p) \in 1..15 /\ endIndex(p) \in Nat
  BY EndIndex, PagesArePages
<1> HIDE DEF f, B
<1>4. Synched(f)
  <2> SUFFICES ASSUME NEW i \in 1..B PROVE f[i] = Synch <=> i % 17 = 1
    BY <1>2 DEF Synched, POCSAG_WORD_PER_BATCH
  <2>1. f[i] = Synch <=> (i - 1) % 17 = 0
    BY <1>1, <1>2, FrameWords
  <2>2. (i - 1) % 17 = 0 <=> i % 17 = 1
    BY <1>1
  <2> QED BY <2>1, <2>2
<1>5. UsedToTheEnd(f)
  <2> DEFINE j == endIndex(p) + 1
  <2>1. j \in B - 15..B /\ j \in 1..B /\ j - 1 = endIndex(p)
    BY <1>1, <1>3
  <2>2. f[j] \notin {Synch, Idle}
    BY <1>2, <1>3, <2>1, FrameWords
  <2> HIDE DEF j
  <2> QED BY <1>2, <2>1, <2>2 DEF UsedToTheEnd
<1>6. Gaps(f)
  <2> SUFFICES ASSUME NEW i \in 1..B, NEW j \in 1..i - 1, f[i].kind = "address", f[j] # Synch
               PROVE  f[j] = Idle
    BY <1>2 DEF Gaps
  <2>1. i - 1 = startIndex(p)
    BY <1>1, <1>2, FrameWords
  <2>2. j \in 1..B /\ j - 1 \in 0..startIndex(p) - 1 /\ j - 1 \in Nat
    BY <1>1, <2>1
  <2>3. j - 1 # 0
    <3>1. f[j] = WordOf(p, j - 1)
      BY <1>2, <2>2
    <3>2. WordOf(p, 0) = Synch
      BY FrameWords
    <3> QED BY <3>1, <3>2
  <2>4. j - 1 \in 1..startIndex(p) - 1
    BY <1>3, <2>2, <2>3
  <2> QED BY <1>2, <2>2, <2>4, FrameWords
<1> QED BY <1>1, <1>2, <1>4, <1>5, <1>6 DEF Transmission, Whole, f, B

(* The words of two sequences, one behind the other.                        *)
LEMMA Joined ==
  ASSUME NEW S, NEW u \in Seq(S), NEW f \in Seq(S)
  PROVE  /\ u \o f \in Seq(S) /\ Len(u \o f) = Len(u) + Len(f)
         /\ \A i \in 1..Len(u) : (u \o f)[i] = u[i]
         /\ \A i \in Len(u) + 1..Len(u) + Len(f) : (u \o f)[i] = f[i - Len(u)] /\ i - Len(u) \in 1..Len(f)
OBVIOUS

(* Whole batches they stay when a page begins a new batch.                  *)
LEMMA WholeBehind ==
  ASSUME NEW w, Whole(w), NEW p \in Pages, Fits(p)
  PROVE  LET v == w \o buildFrame(p, 0, BatchEnd(p))
         IN /\ Whole(v) /\ v \in Seq(Words) /\ Len(v) = Len(w) + BatchEnd(p)
            /\ \A i \in 1..Len(w) : v[i] = w[i]
            /\ \A i \in Len(w) + 1..Len(w) + BatchEnd(p) :
                 /\ v[i] = buildFrame(p, 0, BatchEnd(p))[i - Len(w)]
                 /\ i - Len(w) \in 1..BatchEnd(p)
            /\ \A i \in Len(w) + 1..Len(w) + BatchEnd(p) : v[i] = WordOf(p, i - 1 - Len(w))
<1> DEFINE f == buildFrame(p, 0, BatchEnd(p))
           B == BatchEnd(p)
           L == Len(w)
           v == w \o f
<1>1. Whole(f) /\ Len(f) = B /\ \A i \in 1..B : f[i] = WordOf(p, i - 1)
  BY FirstPage DEF Transmission
<1>2. /\ w \in Seq(Words) /\ L \in Nat /\ L % 17 = 0 /\ L >= 17
      /\ f \in Seq(Words) /\ B \in Nat /\ B % 17 = 0 /\ B >= 17
  <2>1. B \in Nat /\ B % 17 = 0 /\ B >= 17
    BY WholeBatches
  <2>2. w \in Seq(Words) /\ L % 17 = 0 /\ L >= 17
    BY DEF Whole
  <2>3. L \in Nat
    BY <2>2
  <2>4. f \in Seq(Words)
    BY <1>1 DEF Whole
  <2> QED BY <2>1, <2>2, <2>3, <2>4
<1> HIDE DEF f, B
<1>3. /\ v \in Seq(Words) /\ Len(v) = L + B
      /\ \A i \in 1..L : v[i] = w[i]
      /\ \A i \in L + 1..L + B : v[i] = f[i - L] /\ i - L \in 1..B
  <2>1. w \in Seq(Words) /\ f \in Seq(Words) /\ Len(f) = B
    BY <1>1, <1>2
  <2>2. /\ w \o f \in Seq(Words) /\ Len(w \o f) = Len(w) + Len(f)
        /\ \A i \in 1..Len(w) : (w \o f)[i] = w[i]
        /\ \A i \in Len(w) + 1..Len(w) + Len(f) :
             (w \o f)[i] = f[i - Len(w)] /\ i - Len(w) \in 1..Len(f)
    BY <2>1, Joined
  <2> QED BY <2>1, <2>2, Zenon
<1>4. (L + B) % 17 = 0 /\ L + B >= 17
  BY <1>2
<1> HIDE DEF v, L
<1>5. Synched(v)
  <2> SUFFICES ASSUME NEW i \in 1..L + B PROVE v[i] = Synch <=> i % 17 = 1
    BY <1>3 DEF Synched, POCSAG_WORD_PER_BATCH
  <2>1. CASE i <= L
    <3>1. i \in 1..L
      BY <1>2, <2>1
    <3> QED BY <1>3, <3>1 DEF Whole, Synched, L, POCSAG_WORD_PER_BATCH
  <2>2. CASE ~(i <= L)
    <3>1. i \in L + 1..L + B
      BY <1>2, <2>2
    <3>2. i - L \in 1..B /\ v[i] = f[i - L]
      BY <1>3, <3>1
    <3>3. f[i - L] = Synch <=> (i - L) % 17 = 1
      BY <1>1, <3>2 DEF Whole, Synched, POCSAG_WORD_PER_BATCH
    <3>4. (i - L) % 17 = i % 17
      BY <1>2, <3>1
    <3> QED BY <3>2, <3>3, <3>4
  <2> QED BY <2>1, <2>2
<1>6. \A i \in L + 1..L + B : v[i] = WordOf(p, i - 1 - L)
  <2> TAKE i \in L + 1..L + B
  <2>1. v[i] = WordOf(p, (i - L) - 1)
    BY <1>1, <1>3
  <2>2. (i - L) - 1 = i - 1 - L
    BY <1>2
  <2> QED BY <2>1, <2>2
<1>7. Whole(v)
  BY <1>3, <1>4, <1>5 DEF Whole
<1> QED BY <1>3, <1>6, <1>7 DEF v, f, B, L

(* It stays true when a page begins a new batch.                            *)
LEMMA BehindABatch ==
  ASSUME NEW w, Transmission(w), NEW p \in Pages, Fits(p),
         startIndex(p) = 1 => w[Len(w)] = Idle
  PROVE  LET v == w \o buildFrame(p, 0, BatchEnd(p))
         IN /\ Transmission(v) /\ Len(v) = Len(w) + BatchEnd(p)
            /\ \A i \in 1..Len(w) : v[i] = w[i]
            /\ \A i \in Len(w) + 1..Len(v) : v[i] = WordOf(p, i - 1 - Len(w))
<1> DEFINE f == buildFrame(p, 0, BatchEnd(p))
           B == BatchEnd(p)
           L == Len(w)
           v == w \o f
<1>1. Transmission(f) /\ Len(f) = B /\ \A i \in 1..B : f[i] = WordOf(p, i - 1)
  BY FirstPage
<1>2. /\ w \in Seq(Words) /\ L \in Nat /\ L % 17 = 0 /\ L >= 17
      /\ f \in Seq(Words) /\ B \in Nat /\ B % 17 = 0 /\ B >= 17
  <2>1. B \in Nat /\ B % 17 = 0 /\ B >= 17
    BY WholeBatches
  <2>2. w \in Seq(Words) /\ L % 17 = 0 /\ L >= 17
    BY DEF Transmission, Whole
  <2>3. L \in Nat
    BY <2>2
  <2>4. f \in Seq(Words)
    BY <1>1 DEF Transmission, Whole
  <2> QED BY <2>1, <2>2, <2>3, <2>4
<1>3. PICK s \in 1..15 : s = startIndex(p)
  BY EndIndex, PagesArePages
<1>4. \A i \in 1..s : (f[i] = Synch \/ f[i] = Idle) /\ (f[i] = Synch => i = 1)
  <2> TAKE i \in 1..s
  <2>1. i - 1 \in Nat /\ i \in 1..B
    BY <1>2
  <2>2. f[i] = WordOf(p, i - 1)
    BY <1>1, <2>1
  <2>3. CASE i = 1
    BY <2>2, <2>3, FrameWords
  <2>4. CASE i # 1
    <3>1. i - 1 \in 1..s - 1
      BY <1>3, <2>4
    <3>2. f[i] = Idle
      BY <1>3, <2>1, <2>2, <3>1, FrameWords
    <3> QED BY <3>2, Kinds
  <2> QED BY <2>3, <2>4
<1>5. \A i \in 1..B : f[i].kind = "address" => i = s + 1
  <2> TAKE i \in 1..B
  <2>1. i - 1 \in Nat /\ i \in 1..B
    BY <1>2
  <2>2. f[i] = WordOf(p, i - 1)
    BY <1>1, <2>1
  <2>3. f[i].kind = "address" => i - 1 = s
    BY <1>3, <2>1, <2>2, FrameWords
  <2> QED BY <1>3, <2>3
<1> HIDE DEF f, B
<1>6. /\ v \in Seq(Words) /\ Len(v) = L + B
      /\ \A i \in 1..L : v[i] = w[i]
      /\ \A i \in L + 1..L + B : v[i] = f[i - L] /\ i - L \in 1..B
  BY WholeBehind DEF Transmission, f, B
<1> HIDE DEF v, L
<1>7. Whole(v)
  BY WholeBehind DEF Transmission, v, f
<1>8. UsedToTheEnd(v)
  <2>1. PICK j \in B - 15..B : f[j] \notin {Synch, Idle}
    BY <1>1 DEF Transmission, Whole, UsedToTheEnd
  <2>2. /\ L + j \in L + 1..L + B /\ L + j \in (L + B) - 15..L + B
        /\ (L + j) - L = j
    BY <1>2, <2>1
  <2>3. v[L + j] = f[j]
    BY <1>6, <2>2
  <2>4. v[L + j] \notin {Synch, Idle}
    BY <2>1, <2>3
  <2> QED BY <1>6, <2>2, <2>4 DEF UsedToTheEnd
<1>9. Gaps(v)
  <2> SUFFICES ASSUME NEW i \in 1..L + B, NEW j \in 1..i - 1, v[i].kind = "address", v[j] # Synch,
                      \A n \in j + 1..i - 1 : v[n] = Synch
               PROVE  v[j] = Idle
    BY <1>6 DEF Gaps
  <2>1. CASE i <= L
    <3>1. i \in 1..L /\ j \in 1..L /\ \A n \in j + 1..i - 1 : n \in 1..L
      BY <1>2, <2>1
    <3>2. v[i] = w[i] /\ v[j] = w[j] /\ \A n \in j + 1..i - 1 : w[n] = Synch
      BY <1>6, <3>1
    <3> QED BY <3>1, <3>2 DEF Transmission, Whole, Gaps, L
  <2>2. CASE ~(i <= L)
    <3>1. i \in L + 1..L + B
      BY <1>2, <2>2
    <3>2. i = L + s + 1
      <4>1. i - L \in 1..B /\ f[i - L].kind = "address"
        BY <1>6, <3>1
      <4>2. i - L = s + 1
        BY <1>5, <4>1
      <4> QED BY <1>2, <3>1, <4>2
    <3>3. CASE j > L
      <4>1. j \in L + 1..L + B /\ j - L \in 1..s
        BY <1>2, <3>1, <3>2, <3>3
      <4>2. v[j] = f[j - L]
        BY <1>6, <4>1
      <4>3. f[j - L] = Synch \/ f[j - L] = Idle
        BY <1>4, <4>1
      <4> QED BY <4>2, <4>3
    <3>4. CASE ~(j > L)
      <4>1. j \in 1..L
        BY <1>2, <3>4
      <4>2. CASE s = 1
        <5>1. v[L] = Idle
          <6>1. L \in 1..L
            BY <1>2
          <6> QED BY <1>3, <1>6, <4>2, <6>1 DEF L
        <5>2. j # L => L \in j + 1..i - 1
          BY <1>2, <3>1, <4>1
        <5>3. j = L
          BY <5>1, <5>2, Kinds
        <5> QED BY <5>1, <5>3
      <4>3. CASE s # 1
        <5> DEFINE n == L + s
        <5>1. n \in j + 1..i - 1 /\ n \in L + 1..L + B /\ n - L = s /\ s \in 1..s
          BY <1>2, <3>1, <3>2, <4>1
        <5>2. v[n] = f[s]
          BY <1>6, <5>1
        <5>3. v[n] = Synch
          BY <5>1
        <5> QED BY <1>4, <4>3, <5>1, <5>2, <5>3
      <4> QED BY <4>2, <4>3
    <3> QED BY <3>3, <3>4
  <2> QED BY <2>1, <2>2
<1>10. \A i \in L + 1..L + B : v[i] = WordOf(p, i - 1 - L)
  BY WholeBehind DEF Transmission, v, f, B, L
<1>11. Transmission(v)
  BY <1>7, <1>8, <1>9 DEF Transmission
<1> QED BY <1>6, <1>10, <1>11 DEF v, f, B, L

(* Whole batches they stay when a page begins in the last batch.            *)
LEMMA WholeInside ==
  ASSUME NEW w, Whole(w), NEW p \in Pages, Fits(p)
  PROVE  LET h == Len(w) - 17 + startIndex(p)
             E == Len(w) + BatchEnd(p) - 17
             v == SubSeq(w, 1, h) \o buildFrame(p, startIndex(p), BatchEnd(p))
         IN /\ Whole(v) /\ v \in Seq(Words) /\ Len(v) = E
            /\ h \in 1..Len(w) - 1 /\ E \in Nat /\ E % 17 = 0 /\ E >= 17 /\ h < E
            /\ \A i \in 1..h : v[i] = w[i]
            /\ \A i \in h + 1..E :
                 v[i] = WordOf(p, i - 1 - (Len(w) - 17)) /\ i - 1 - (Len(w) - 17) \in Nat
<1>1. w \in Seq(Words) /\ Len(w) % 17 = 0 /\ Len(w) >= 17
  BY DEF Whole
<1>2. PICK s \in 1..15 : s = startIndex(p)
  BY EndIndex, PagesArePages
<1>3. PICK B \in Nat : B = BatchEnd(p)
  BY WholeBatches
<1>4. PICK z \in Nat : z = endIndex(p)
  BY EndIndex, PagesArePages
<1>5. B % 17 = 0 /\ B >= 17 /\ z < B /\ B - 17 < z /\ z >= s
  BY <1>2, <1>3, <1>4, WholeBatches, EndIndex, PagesArePages
<1> DEFINE f == buildFrame(p, s, B)
<1>6. f \in Seq(Words) /\ Len(f) = B - s /\ \A i \in 1..B - s : f[i] = WordOf(p, s + i - 1)
  <2>1. s \in Nat /\ s <= B
    BY <1>5
  <2> QED BY <2>1, BuiltFrame, Zenon
<1>7. PICK L \in Nat, h \in Int, E \in Int : L = Len(w) /\ h = L - 17 + s /\ E = L + B - 17
  BY <1>1
<1> DEFINE v == SubSeq(w, 1, h) \o f
<1> HIDE DEF f
<1>8. /\ h \in 1..L - 1 /\ E \in Nat /\ E % 17 = 0 /\ E >= 17 /\ h < E
      /\ v \in Seq(Words) /\ Len(v) = E
      /\ \A i \in 1..h : v[i] = w[i]
      /\ \A i \in h + 1..E : v[i] = f[i - h] /\ i - h \in 1..B - s
  <2> DEFINE u == SubSeq(w, 1, h)
  <2>1. L % 17 = 0 /\ L >= 17 /\ h = L - 17 + s /\ E = L + B - 17 /\ Len(w) = L
    BY <1>1, <1>7
  <2>2. /\ h \in 1..L - 1 /\ h \in Nat /\ E \in Nat /\ E % 17 = 0 /\ E >= 17 /\ h < E
        /\ h + (B - s) = E
    BY <1>5, <2>1
  <2>3. u \in Seq(Words) /\ Len(u) = h /\ \A i \in 1..h : u[i] = w[i]
    BY <1>1, <2>1, <2>2
  <2> HIDE DEF u
  <2>4. /\ u \o f \in Seq(Words) /\ Len(u \o f) = Len(u) + Len(f)
        /\ \A i \in 1..Len(u) : (u \o f)[i] = u[i]
        /\ \A i \in Len(u) + 1..Len(u) + Len(f) : (u \o f)[i] = f[i - Len(u)] /\ i - Len(u) \in 1..Len(f)
    BY <1>6, <2>3, Joined
  <2>5. Len(u) + Len(f) = E
    BY <1>6, <2>2, <2>3
  <2> QED BY <1>6, <2>2, <2>3, <2>4, <2>5 DEF u
<1> HIDE DEF v
<1>9. L % 17 = 0 /\ L >= 17 /\ h = L - 17 + s /\ E = L + B - 17
  BY <1>1, <1>7
<1>10. ASSUME NEW i \in h + 1..E
       PROVE  v[i] = WordOf(p, i - 1 - (L - 17)) /\ i - 1 - (L - 17) \in Nat
  <2>1. v[i] = WordOf(p, s + (i - h) - 1)
    BY <1>6, <1>8
  <2>2. s + (i - h) - 1 = i - 1 - (L - 17) /\ i - 1 - (L - 17) \in Nat
    BY <1>9
  <2> QED BY <2>1, <2>2
<1>11. Synched(v)
  <2> SUFFICES ASSUME NEW i \in 1..E PROVE v[i] = Synch <=> i % 17 = 1
    BY <1>8 DEF Synched, POCSAG_WORD_PER_BATCH
  <2>1. CASE i <= h
    <3>1. i \in 1..h /\ i \in 1..L
      BY <1>8, <2>1
    <3>2. i \in 1..Len(w)
      BY <1>7, <3>1
    <3> QED BY <1>8, <3>1, <3>2 DEF Whole, Synched, POCSAG_WORD_PER_BATCH
  <2>2. CASE ~(i <= h)
    <3> DEFINE k == i - 1 - (L - 17)
    <3>1. i \in h + 1..E
      BY <2>2
    <3>2. k \in Nat /\ v[i] = WordOf(p, k)
      BY <1>10, <3>1
    <3>3. v[i] = Synch <=> k % 17 = 0
      BY <3>2, FrameWords
    <3>4. k % 17 = 0 <=> i % 17 = 1
      BY <1>9, <3>1, <3>2
    <3> QED BY <3>3, <3>4
  <2> QED BY <2>1, <2>2
<1>12. Whole(v)
  BY <1>8, <1>11 DEF Whole
<1>13. /\ h = Len(w) - 17 + startIndex(p) /\ E = Len(w) + BatchEnd(p) - 17
       /\ L - 17 = Len(w) - 17
       /\ v = SubSeq(w, 1, h) \o buildFrame(p, startIndex(p), BatchEnd(p))
  BY <1>2, <1>3, <1>7 DEF v, f
<1> QED BY <1>7, <1>8, <1>10, <1>12, <1>13

(* It stays true when a page begins in the last batch, behind an idle word. *)
LEMMA InTheBatch ==
  ASSUME NEW w, Transmission(w), NEW p \in Pages, Fits(p), startIndex(p) # 1,
         w[Len(w) - 17 + startIndex(p)] = Idle
  PROVE  LET h == Len(w) - 17 + startIndex(p)
             v == SubSeq(w, 1, h) \o buildFrame(p, startIndex(p), BatchEnd(p))
         IN /\ Transmission(v) /\ Len(v) = Len(w) + BatchEnd(p) - 17
            /\ \A i \in 1..h : v[i] = w[i]
            /\ \A i \in h + 1..Len(v) : v[i] = WordOf(p, i - 1 - (Len(w) - 17))
<1>1. w \in Seq(Words) /\ Len(w) % 17 = 0 /\ Len(w) >= 17
  BY DEF Transmission, Whole
<1>2. PICK s \in 2..15 : s = startIndex(p)
  <2>1. startIndex(p) \in {1, 3, 5, 7, 9, 11, 13, 15}
    BY EndIndex, PagesArePages
  <2>2. startIndex(p) \in 2..15
    BY <2>1
  <2> QED BY <2>2
<1>3. PICK B \in Nat : B = BatchEnd(p)
  BY WholeBatches
<1>4. PICK z \in Nat : z = endIndex(p)
  BY EndIndex, PagesArePages
<1>5. B % 17 = 0 /\ B >= 17 /\ z < B /\ B - 17 < z /\ z >= s
  BY <1>2, <1>3, <1>4, WholeBatches, EndIndex, PagesArePages
<1>6. PICK L \in Nat, h \in Int, E \in Int : L = Len(w) /\ h = L - 17 + s /\ E = L + B - 17
  BY <1>1
<1> DEFINE v == SubSeq(w, 1, h) \o buildFrame(p, s, B)
<1>7. /\ h \in 1..L - 1 /\ E \in Nat /\ E % 17 = 0 /\ E >= 17 /\ h < E
      /\ Whole(v) /\ v \in Seq(Words) /\ Len(v) = E
      /\ \A i \in 1..h : v[i] = w[i]
      /\ \A i \in h + 1..E : v[i] = WordOf(p, i - 1 - (L - 17)) /\ i - 1 - (L - 17) \in Nat
  BY <1>2, <1>3, <1>6, WholeInside DEF Transmission
<1> HIDE DEF v
<1>8. L % 17 = 0 /\ L >= 17 /\ h = L - 17 + s /\ E = L + B - 17
  BY <1>1, <1>6
<1>9. ASSUME NEW i \in h + 1..E
       PROVE  v[i] = WordOf(p, i - 1 - (L - 17)) /\ i - 1 - (L - 17) \in Nat
  BY <1>7
<1>10. UsedToTheEnd(v)
  <2> DEFINE j == z + 1 + (L - 17)
  <2>1. j \in E - 15..E /\ j \in h + 1..E /\ j - 1 - (L - 17) = z
    BY <1>5, <1>8
  <2>2. v[j] = WordOf(p, z)
    BY <1>9, <2>1
  <2>3. v[j] \notin {Synch, Idle}
    BY <1>4, <2>2, FrameWords
  <2> HIDE DEF j
  <2> QED BY <1>7, <2>1, <2>3 DEF UsedToTheEnd
<1>11. Gaps(v)
  <2> SUFFICES ASSUME NEW i \in 1..E, NEW j \in 1..i - 1, v[i].kind = "address", v[j] # Synch,
                      \A n \in j + 1..i - 1 : v[n] = Synch
               PROVE  v[j] = Idle
    BY <1>7 DEF Gaps
  <2>1. CASE i <= h
    <3>1. i \in 1..L /\ i \in 1..h /\ j \in 1..h /\ \A n \in j + 1..i - 1 : n \in 1..h
      BY <1>7, <2>1
    <3>2. v[i] = w[i] /\ v[j] = w[j] /\ \A n \in j + 1..i - 1 : w[n] = Synch
      BY <1>7, <3>1
    <3>3. i \in 1..Len(w)
      BY <1>6, <3>1
    <3> QED BY <3>2, <3>3 DEF Transmission, Whole, Gaps
  <2>2. CASE ~(i <= h)
    <3>1. i \in h + 1..E
      BY <2>2
    <3>2. i - 1 - (L - 17) = s
      BY <1>2, <1>9, <3>1, FrameWords
    <3>3. i = h + 1
      BY <1>8, <3>1, <3>2
    <3>4. v[h] = Idle
      <4>1. h \in 1..h
        BY <1>7
      <4>2. w[h] = Idle
        BY <1>2, <1>6
      <4> QED BY <1>7, <4>1, <4>2
    <3>5. j # h => h \in j + 1..i - 1
      BY <3>3
    <3>6. j = h
      BY <3>4, <3>5, Kinds
    <3> QED BY <3>4, <3>6
  <2> QED BY <2>1, <2>2
<1>12. Transmission(v)
  BY <1>7, <1>10, <1>11 DEF Transmission
<1>13. Len(v) = L + B - 17 /\ \A i \in h + 1..Len(v) : v[i] = WordOf(p, i - 1 - (L - 17))
  BY <1>7, <1>8, <1>9
<1> QED BY <1>2, <1>3, <1>6, <1>7, <1>12, <1>13 DEF v

-----------------------------------------------------------------------------
(* The place of a word among those that are not synch words.                *)

(* How many words that are not synch words come before the one at i.        *)
Place(i) == (i - 1) - (i - 1) \div 17

(* Later words have greater places, except that a synch word has the place  *)
(* of the word before it.                                                   *)
LEMMA PlacesInOrder ==
  ASSUME NEW i \in Nat \ {0}, NEW j \in Nat \ {0}
  PROVE  /\ Place(i) \in Nat
         /\ i <= j => Place(i) <= Place(j)
         /\ i < j /\ j % 17 # 1 => Place(i) < Place(j)
<1>1. Place(i) \in Nat
  BY DEF Place
<1>2. i <= j => Place(i) <= Place(j)
  BY DEF Place
<1>3. i < j /\ j % 17 # 1 => Place(i) < Place(j)
  <2> SUFFICES ASSUME i < j, j % 17 # 1 PROVE Place(i) < Place(j)
    OBVIOUS
  <2>1. PICK q \in Int, r \in 1..16 : j - 1 = 17 * q + r
    <3>1. PICK b \in Nat : b = j - 1
      OBVIOUS
    <3>2. PICK q \in Int, r \in 0..16 : b = 17 * q + r /\ q = b \div 17 /\ r = b % 17
      OBVIOUS
    <3>3. r # 0
      <4> SUFFICES ASSUME r = 0 PROVE FALSE
        OBVIOUS
      <4>1. j = 17 * q + 1
        BY <3>1, <3>2
      <4> QED BY <4>1
    <3> QED BY <3>1, <3>2, <3>3
  <2>2. (j - 1) \div 17 = q /\ (j - 2) \div 17 = q
    BY <2>1
  <2>3. i - 1 <= j - 2
    OBVIOUS
  <2> QED BY <2>1, <2>2, <2>3 DEF Place
<1> QED BY <1>1, <1>2, <1>3

(* Every place is that of a word.                                           *)
LEMMA PlaceExists ==
  ASSUME NEW k \in Nat \ {0}
  PROVE  \E j \in Nat \ {0} : j % 17 # 1 /\ Place(j) = k
<1>1. PICK q \in Int, r \in 0..15 : k - 1 = 16 * q + r /\ q = (k - 1) \div 16
  OBVIOUS
<1> DEFINE j == 17 * q + r + 2
<1>2. q >= 0
  BY <1>1
<1>3. j \in Nat \ {0} /\ j - 1 = 17 * q + (r + 1) /\ r + 1 \in 1..16
  BY <1>1, <1>2
<1>4. (j - 1) \div 17 = q /\ (j - 1) % 17 = r + 1
  BY <1>1, <1>2, <1>3
<1>5. j % 17 # 1
  BY <1>3, <1>4
<1>6. Place(j) = k
  BY <1>1, <1>3, <1>4 DEF Place
<1> HIDE DEF j
<1> QED BY <1>3, <1>5, <1>6

(* The page p is on the air from the address at i on: its frame is the      *)
(* pager's, the data words follow in order, synch words left out, there is  *)
(* room for all of them, and what follows them is no data.                  *)
OnAir(w, i, p) ==
  /\ i \in 1..Len(w) /\ (i - 1) % 17 = startIndex(p) /\ w[i] = Address(p)
  /\ Place(Len(w)) >= Place(i) + wordCount(p)
  /\ \A j \in i + 1..Len(w) : \A k \in 1..wordCount(p) :
       j % 17 # 1 /\ Place(j) = Place(i) + k => w[j] = Data(p, k)
  /\ \A j \in i + 1..Len(w) :
       j % 17 # 1 /\ Place(j) = Place(i) + wordCount(p) + 1 => w[j].kind # "data"

(* A page that was just built is on the air.                                *)
LEMMA NewOnAir ==
  ASSUME NEW p \in Pages, Fits(p), NEW w, NEW base \in Nat, base % 17 = 0,
         Len(w) = base + BatchEnd(p),
         \A j \in base + startIndex(p) + 1..Len(w) : w[j] = WordOf(p, j - 1 - base)
  PROVE  /\ OnAir(w, base + startIndex(p) + 1, p)
         /\ \A j \in base + startIndex(p) + 1..Len(w) :
              w[j].kind = "address" <=> j = base + startIndex(p) + 1
<1>1. PICK s \in 1..15 : s = startIndex(p)
  BY EndIndex, PagesArePages
<1>2. PICK B \in Nat : B = BatchEnd(p)
  BY WholeBatches
<1>3. PICK z \in Nat : z = endIndex(p)
  BY EndIndex, PagesArePages
<1>4. PICK c \in Nat : c = wordCount(p)
  BY EndIndex, PagesArePages
<1>5. B % 17 = 0 /\ B >= 17 /\ z < B /\ z >= s /\ z % 17 # 0 /\ z - z \div 17 = s + c
  BY <1>1, <1>2, <1>3, <1>4, WholeBatches, EndIndex, PagesArePages
<1>6. PICK E \in Nat : E = Len(w) /\ E = base + B
  BY <1>2
<1>7. PICK i \in Nat : i = base + s + 1
  OBVIOUS
<1>8. \A j \in i..E : w[j] = WordOf(p, j - 1 - base) /\ j - 1 - base \in Nat
  <2>1. \A j \in i..E : w[j] = WordOf(p, j - 1 - base)
    BY <1>1, <1>6, <1>7
  <2>2. \A j \in i..E : j - 1 - base \in Nat
    BY <1>7
  <2> QED BY <2>1, <2>2
<1>9. PICK q \in Nat : base = 17 * q
  OBVIOUS
<1>10. ASSUME NEW j \in i..E
       PROVE  LET x == j - 1 - base IN Place(j) = Place(i) + (x - s - x \div 17) /\ (x % 17 = 0 <=> j % 17 = 1)
  <2> DEFINE x == j - 1 - base
  <2>1. x \in Nat /\ j - 1 = 17 * q + x /\ i - 1 = 17 * q + s
    BY <1>7, <1>9
  <2>2. (j - 1) \div 17 = q + x \div 17 /\ (i - 1) \div 17 = q
    BY <2>1
  <2>3. x % 17 = 0 <=> j % 17 = 1
    BY <2>1
  <2> QED BY <2>1, <2>2, <2>3 DEF Place
<1>11. i \in 1..E /\ i \in i..E /\ (i - 1) % 17 = s /\ i - 1 - base = s
  BY <1>5, <1>6, <1>7, <1>9
<1>12. w[i] = Address(p)
  <2>1. w[i] = WordOf(p, s)
    BY <1>8, <1>11
  <2>2. s % 17 # 0
    OBVIOUS
  <2> QED BY <1>1, <2>1, <2>2 DEF WordOf
<1>13. Place(E) >= Place(i) + c
  <2>1. E \in i..E /\ base + z + 1 \in i..E
    BY <1>5, <1>6, <1>7, <1>11
  <2>2. Place(base + z + 1) = Place(i) + (z - s - z \div 17)
    <3>1. (base + z + 1) - 1 - base = z
      OBVIOUS
    <3> QED BY <1>10, <2>1, <3>1
  <2>3. Place(base + z + 1) <= Place(E)
    BY <1>6, <1>11, <2>1, PlacesInOrder
  <2>4. z - s - z \div 17 = c
    BY <1>5
  <2>5. Place(i) \in Nat /\ Place(E) \in Nat
    BY <1>11, PlacesInOrder
  <2> QED BY <2>2, <2>3, <2>4, <2>5
<1>14. ASSUME NEW j \in i + 1..E, j % 17 # 1
       PROVE  /\ \A k \in 1..c : Place(j) = Place(i) + k => w[j] = Data(p, k)
              /\ Place(j) = Place(i) + c + 1 => w[j] = Idle
  <2> DEFINE x == j - 1 - base
  <2>1. j \in i..E /\ x \in Nat /\ x > s
    BY <1>7
  <2>2. w[j] = WordOf(p, x) /\ Place(j) = Place(i) + (x - s - x \div 17) /\ x % 17 # 0
    BY <1>8, <1>10, <1>14, <2>1
  <2>3. WordAt(p, x) = x - s - x \div 17
    BY <1>1 DEF WordAt, POCSAG_WORD_PER_BATCH
  <2>4. Place(i) \in Nat
    BY <1>11, PlacesInOrder
  <2> HIDE DEF x
  <2>5. w[j] = IF WordAt(p, x) \in 1..c THEN Data(p, WordAt(p, x)) ELSE Idle
    BY <1>1, <1>4, <2>1, <2>2 DEF WordOf
  <2>6. ASSUME NEW k \in 1..c, Place(j) = Place(i) + k PROVE w[j] = Data(p, k)
    <3>1. x - s - x \div 17 = k
      BY <2>1, <2>2, <2>4, <2>6
    <3> QED BY <2>3, <2>5, <3>1
  <2>7. ASSUME Place(j) = Place(i) + c + 1 PROVE w[j] = Idle
    <3>1. x - s - x \div 17 = c + 1
      BY <2>1, <2>2, <2>4, <2>7
    <3>2. ~(c + 1 \in 1..c)
      OBVIOUS
    <3> QED BY <2>3, <2>5, <3>1, <3>2
  <2> QED BY <2>6, <2>7
<1>15. OnAir(w, i, p)
  <2>1. i \in 1..Len(w) /\ (i - 1) % 17 = startIndex(p)
    BY <1>1, <1>6, <1>11
  <2>2. Place(Len(w)) >= Place(i) + wordCount(p)
    BY <1>4, <1>6, <1>13
  <2>3. \A j \in i + 1..Len(w) : \A k \in 1..wordCount(p) :
          j % 17 # 1 /\ Place(j) = Place(i) + k => w[j] = Data(p, k)
    BY <1>4, <1>6, <1>14
  <2>4. \A j \in i + 1..Len(w) :
          j % 17 # 1 /\ Place(j) = Place(i) + wordCount(p) + 1 => w[j].kind # "data"
    BY <1>4, <1>6, <1>14, Kinds
  <2> QED BY <1>12, <2>1, <2>2, <2>3, <2>4 DEF OnAir
<1>16. ASSUME NEW j \in i..E PROVE w[j].kind = "address" <=> j = i
  <2>1. w[j] = WordOf(p, j - 1 - base) /\ j - 1 - base \in Nat
    BY <1>8
  <2>2. w[j].kind = "address" <=> j - 1 - base = s
    BY <1>1, <2>1, FrameWords
  <2>3. j - 1 - base = s <=> j = i
    BY <1>7
  <2> QED BY <2>2, <2>3
<1>17. i = base + startIndex(p) + 1
  BY <1>1, <1>7
<1> QED BY <1>6, <1>15, <1>16, <1>17

(* A page stays on the air when only words behind h change, where nothing   *)
(* but idle and synch words were, and the first word there that is not a    *)
(* synch word, at y, is no data.                                            *)
LEMMA StaysOnAir ==
  ASSUME NEW w, NEW v, Len(w) \in Nat, Len(v) \in Nat, Len(w) <= Len(v),
         Synched(w),
         NEW h \in Nat \ {0}, NEW y \in h + 1..h + 2, h <= Len(w),
         \A j \in 1..h : v[j] = w[j],
         \A j \in h + 1..Len(w) : w[j] \in {Synch, Idle},
         \A j \in h + 1..y - 1 : j % 17 = 1,
         y % 17 # 1, y <= Len(v) => v[y].kind # "data",
         NEW i, NEW q \in Pages, OnAir(w, i, q)
  PROVE  OnAir(v, i, q)
<1>1. PICK c \in Nat : c = wordCount(q)
  BY EndIndex, PagesArePages
<1>2. PICK L \in Nat, E \in Nat : L = Len(w) /\ E = Len(v) /\ L <= E /\ h <= L
  OBVIOUS
<1>3. PICK a \in 1..L : a = i
  BY <1>2 DEF OnAir
<1>4. /\ (a - 1) % 17 = startIndex(q) /\ w[a] = Address(q) /\ Place(L) >= Place(a) + c
      /\ \A j \in a + 1..L : \A k \in 1..c :
           j % 17 # 1 /\ Place(j) = Place(a) + k => w[j] = Data(q, k)
      /\ \A j \in a + 1..L :
           j % 17 # 1 /\ Place(j) = Place(a) + c + 1 => w[j].kind # "data"
  BY <1>1, <1>2, <1>3 DEF OnAir
<1>5. ASSUME NEW j \in 1..L, w[j] \notin {Synch, Idle} PROVE j <= h /\ v[j] = w[j]
  <2>1. ~(j \in h + 1..L)
    BY <1>2, <1>5
  <2>2. j \in 1..h
    BY <2>1
  <2> QED BY <2>2
<1>6. a <= h /\ v[a] = Address(q)
  BY <1>4, <1>5, Kinds
<1>7. a \in 1..E /\ a \in Nat \ {0} /\ Place(a) \in Nat
  BY <1>2, PlacesInOrder
<1>8. Place(E) >= Place(a) + c
  <2>1. L \in Nat \ {0} /\ E \in Nat \ {0}
    BY <1>2
  <2>2. Place(L) <= Place(E) /\ Place(L) \in Nat /\ Place(E) \in Nat
    BY <1>2, <2>1, PlacesInOrder
  <2> QED BY <1>4, <1>7, <2>2
<1>9. ASSUME NEW j \in a + 1..E, NEW k \in 1..c, j % 17 # 1, Place(j) = Place(a) + k
      PROVE  j <= h /\ v[j] = Data(q, k)
  <2>1. j <= L
    <3> SUFFICES ASSUME L < j PROVE FALSE
      BY <1>2
    <3>1. L \in Nat \ {0} /\ j \in Nat \ {0}
      BY <1>2
    <3>2. Place(L) < Place(j) /\ Place(L) \in Nat /\ Place(j) \in Nat
      BY <1>9, <3>1, PlacesInOrder
    <3> QED BY <1>4, <1>7, <1>9, <3>2
  <2>2. w[j] = Data(q, k) /\ j \in 1..L
    <3>1. j \in a + 1..L /\ j \in 1..L
      BY <2>1
    <3>2. \A m \in 1..c : j % 17 # 1 /\ Place(j) = Place(a) + m => w[j] = Data(q, m)
      BY <1>4, <3>1
    <3> QED BY <1>9, <3>1, <3>2
  <2> QED BY <1>5, <2>2, Kinds
<1>10. ASSUME NEW j \in a + 1..E, j % 17 # 1, Place(j) = Place(a) + c + 1
       PROVE  v[j].kind # "data"
  <2>1. CASE j <= h
    <3>1. j \in 1..h /\ j \in a + 1..L
      BY <1>2, <2>1
    <3> QED BY <1>4, <1>10, <3>1
  <2>2. CASE ~(j <= h)
    <3>1. PICK x \in Nat \ {0} : x <= h /\ Place(x) = Place(a) + c
      <4>1. CASE c = 0
        BY <1>6, <1>7, <4>1
      <4>2. CASE c # 0
        <5>1. Place(a) + c \in Nat \ {0}
          BY <1>7, <4>2
        <5>2. PICK x \in Nat \ {0} : x % 17 # 1 /\ Place(x) = Place(a) + c
          BY <5>1, PlaceExists
        <5>3. a < x
          <6> SUFFICES ASSUME x <= a PROVE FALSE
            OBVIOUS
          <6>1. Place(x) <= Place(a)
            BY <1>7, PlacesInOrder
          <6> QED BY <1>7, <4>2, <5>2, <6>1
        <5>4. x <= E
          <6> SUFFICES ASSUME E < x PROVE FALSE
            BY <1>2
          <6>1. j \in Nat \ {0} /\ j < x
            BY <1>2
          <6>2. Place(j) < Place(x)
            BY <5>2, <6>1, PlacesInOrder
          <6> QED BY <1>7, <1>10, <5>2, <6>2
        <5>5. x \in a + 1..E /\ c \in 1..c
          BY <4>2, <5>3, <5>4
        <5>6. x <= h
          BY <1>9, <5>2, <5>5
        <5> QED BY <5>2, <5>6
      <4> QED BY <4>1, <4>2
    <3>2. y <= j
      <4> SUFFICES ASSUME j < y PROVE FALSE
        OBVIOUS
      <4>1. j \in h + 1..y - 1
        BY <2>2
      <4> QED BY <1>10, <4>1
    <3>3. j <= y
      <4> SUFFICES ASSUME y < j PROVE FALSE
        OBVIOUS
      <4>1. x < y /\ y \in Nat \ {0} /\ j \in Nat \ {0}
        BY <3>1
      <4>2. Place(x) < Place(y) /\ Place(y) < Place(j) /\ Place(y) \in Nat
        BY <1>10, <4>1, PlacesInOrder
      <4> QED BY <1>7, <1>10, <3>1, <4>2
    <3>4. j = y
      BY <3>2, <3>3
    <3>5. y <= Len(v)
      BY <1>2, <3>4
    <3> QED BY <3>4, <3>5
  <2> QED BY <2>1, <2>2
<1>11. /\ \A j \in i + 1..Len(v) : \A k \in 1..wordCount(q) :
            j % 17 # 1 /\ Place(j) = Place(i) + k => v[j] = Data(q, k)
       /\ \A j \in i + 1..Len(v) :
            j % 17 # 1 /\ Place(j) = Place(i) + wordCount(q) + 1 => v[j].kind # "data"
  BY <1>1, <1>2, <1>3, <1>9, <1>10
<1>12. i \in 1..Len(v) /\ (i - 1) % 17 = startIndex(q) /\ v[i] = Address(q)
  BY <1>2, <1>3, <1>4, <1>6, <1>7
<1>13. Place(Len(v)) >= Place(i) + wordCount(q)
  BY <1>1, <1>2, <1>3, <1>8
<1> QED BY <1>11, <1>12, <1>13 DEF OnAir

(* The pages are on the air in their order, at the places at, and there is  *)
(* no other address.                                                        *)
Ordered(w, ps, at) ==
  /\ at \in [1..Len(ps) -> Nat]
  /\ \A n \in 1..Len(ps) : OnAir(w, at[n], ps[n])
  /\ \A m, n \in 1..Len(ps) : m < n => at[m] < at[n]
  /\ \A i \in 1..Len(w) : w[i].kind = "address" => \E n \in 1..Len(ps) : i = at[n]

(* With one page more, built behind h, that is so again.                    *)
LEMMA OnePageMore ==
  ASSUME NEW w, NEW v, Len(w) \in Nat, Len(v) \in Nat, Len(w) <= Len(v),
         Synched(w),
         NEW h \in Nat \ {0}, NEW y \in h + 1..h + 2, h <= Len(w),
         \A j \in 1..h : v[j] = w[j],
         \A j \in h + 1..Len(w) : w[j] \in {Synch, Idle},
         \A j \in h + 1..y - 1 : j % 17 = 1,
         y % 17 # 1, y <= Len(v) => v[y].kind # "data",
         NEW ps \in Seq(Pages), NEW at, Ordered(w, ps, at),
         NEW p \in Pages, Fits(p), NEW base \in Nat, base % 17 = 0,
         Len(v) = base + BatchEnd(p), h <= base + startIndex(p),
         \A j \in h + 1..base + startIndex(p) : v[j].kind # "address",
         \A j \in base + startIndex(p) + 1..Len(v) : v[j] = WordOf(p, j - 1 - base)
  PROVE  \E new : Ordered(v, Append(ps, p), new)
<1>1. PICK N \in Nat : N = Len(ps)
  OBVIOUS
<1>2. PICK a \in Nat : a = base + startIndex(p) + 1 /\ h < a
  <2>1. PICK s \in 1..15 : s = startIndex(p)
    BY EndIndex, PagesArePages
  <2>2. h <= base + s
    BY <2>1
  <2>3. base + s + 1 \in Nat /\ h < base + s + 1
    BY <2>2
  <2> QED BY <2>1, <2>3
<1>3. PICK L \in Nat, E \in Nat : L = Len(w) /\ E = Len(v) /\ L <= E /\ h <= L
  OBVIOUS
<1>4. /\ at \in [1..N -> Nat] /\ \A n \in 1..N : OnAir(w, at[n], ps[n]) /\ ps[n] \in Pages
      /\ \A m, n \in 1..N : m < n => at[m] < at[n]
      /\ \A i \in 1..L : w[i].kind = "address" => \E n \in 1..N : i = at[n]
  BY <1>1, <1>3 DEF Ordered
<1> DEFINE qs == Append(ps, p)
           new == [n \in 1..N + 1 |-> IF n <= N THEN at[n] ELSE a]
<1>5. Len(qs) = N + 1 /\ qs[N + 1] = p /\ \A n \in 1..N : qs[n] = ps[n]
  BY <1>1
<1>6. new \in [1..N + 1 -> Nat] /\ new[N + 1] = a /\ \A n \in 1..N : new[n] = at[n]
  BY <1>4
<1> HIDE DEF qs, new
<1>7. OnAir(v, a, p) /\ \A j \in a..E : v[j].kind = "address" <=> j = a
  <2>1. /\ OnAir(v, base + startIndex(p) + 1, p)
        /\ \A j \in base + startIndex(p) + 1..Len(v) :
             v[j].kind = "address" <=> j = base + startIndex(p) + 1
    BY NewOnAir
  <2> QED BY <1>2, <1>3, <2>1
<1>8. \A n \in 1..N : OnAir(v, at[n], ps[n])
  BY <1>4, StaysOnAir
<1>9. ASSUME NEW n \in 1..N PROVE at[n] \in 1..h
  <2>1. at[n] \in 1..L /\ w[at[n]] = Address(ps[n])
    BY <1>3, <1>4 DEF OnAir
  <2>2. ~(at[n] \in h + 1..L)
    BY <1>3, <2>1, Kinds
  <2> QED BY <1>3, <2>1, <2>2
<1>10. \A n \in 1..N + 1 : OnAir(v, new[n], qs[n])
  <2> TAKE n \in 1..N + 1
  <2>1. CASE n \in 1..N
    BY <1>5, <1>6, <1>8, <2>1
  <2>2. CASE n = N + 1
    BY <1>5, <1>6, <1>7, <2>2
  <2> QED BY <2>1, <2>2
<1>11. \A m, n \in 1..N + 1 : m < n => new[m] < new[n]
  <2> TAKE m, n \in 1..N + 1
  <2> HAVE m < n
  <2>1. m \in 1..N /\ new[m] = at[m]
    BY <1>6
  <2>2. CASE n \in 1..N
    BY <1>4, <1>6, <2>1, <2>2
  <2>3. CASE n = N + 1
    <3>1. at[m] \in 1..h
      BY <1>9, <2>1
    <3> QED BY <1>2, <1>6, <2>1, <2>3, <3>1
  <2> QED BY <2>2, <2>3
<1>12. ASSUME NEW i \in 1..E, v[i].kind = "address" PROVE \E n \in 1..N + 1 : i = new[n]
  <2>1. CASE i <= h
    <3>1. i \in 1..h /\ i \in 1..L
      BY <1>3, <2>1
    <3>2. PICK n \in 1..N : i = at[n]
      BY <1>4, <1>12, <3>1
    <3>3. n \in 1..N + 1 /\ i = new[n]
      BY <1>6, <3>2
    <3> QED BY <3>3
  <2>2. CASE h < i /\ i < a
    <3>1. i \in h + 1..a - 1
      BY <1>2, <2>2
    <3>2. a - 1 = base + startIndex(p)
      <4>1. PICK s \in 1..15 : s = startIndex(p)
        BY EndIndex, PagesArePages
      <4>2. a = base + s + 1
        BY <1>2, <4>1
      <4>3. a - 1 = base + s
        BY <4>2
      <4> QED BY <4>1, <4>3
    <3> QED BY <1>12, <3>1, <3>2
  <2>3. CASE a <= i
    <3>1. i \in a..E
      BY <2>3
    <3>2. i = a
      BY <1>7, <1>12, <3>1
    <3>3. N + 1 \in 1..N + 1
      OBVIOUS
    <3> QED BY <1>6, <3>2, <3>3
  <2> QED BY <1>2, <2>1, <2>2, <2>3
<1>13. Ordered(v, qs, new)
  BY <1>3, <1>5, <1>6, <1>10, <1>11, <1>12 DEF Ordered
<1> QED BY <1>13 DEF qs

(* The first page is on the air.                                            *)
LEMMA FirstOrdered ==
  ASSUME NEW p \in Pages, Fits(p)
  PROVE  \E at : Ordered(buildFrame(p, 0, BatchEnd(p)), <<p>>, at)
<1> DEFINE f == buildFrame(p, 0, BatchEnd(p))
           at == [n \in 1..1 |-> startIndex(p) + 1]
<1>1. PICK s \in 1..15 : s = startIndex(p)
  BY EndIndex, PagesArePages
<1>2. PICK B \in Nat : B = BatchEnd(p) /\ B >= 17
  BY WholeBatches
<1>3. Len(f) = B /\ \A i \in 1..B : f[i] = WordOf(p, i - 1)
  BY <1>2, FirstPage
<1> HIDE DEF f
<1>4. \A j \in 0 + s + 1..B : f[j] = WordOf(p, j - 1 - 0)
  <2> TAKE j \in 0 + s + 1..B
  <2>1. j \in 1..B /\ j - 1 - 0 = j - 1
    OBVIOUS
  <2> QED BY <1>3, <2>1
<1>5. /\ OnAir(f, 0 + startIndex(p) + 1, p)
      /\ \A j \in 0 + startIndex(p) + 1..Len(f) :
           f[j].kind = "address" <=> j = 0 + startIndex(p) + 1
  <2>1. 0 % 17 = 0 /\ 0 \in Nat /\ Len(f) = 0 + BatchEnd(p)
    BY <1>2, <1>3
  <2>2. \A j \in 0 + startIndex(p) + 1..Len(f) : f[j] = WordOf(p, j - 1 - 0)
    BY <1>1, <1>3, <1>4
  <2> QED BY <2>1, <2>2, NewOnAir
<1>6. 0 + startIndex(p) + 1 = s + 1
  BY <1>1
<1>7. ASSUME NEW i \in 1..B, f[i].kind = "address" PROVE i = s + 1
  <2>1. i - 1 \in Nat /\ f[i] = WordOf(p, i - 1)
    BY <1>3
  <2>2. i - 1 = s
    BY <1>1, <1>7, <2>1, FrameWords
  <2> QED BY <2>2
<1>8. at \in [1..1 -> Nat] /\ at[1] = s + 1 /\ <<p>>[1] = p /\ Len(<<p>>) = 1
  <2>1. s + 1 \in Nat
    OBVIOUS
  <2> QED BY <1>1, <2>1
<1> HIDE DEF at
<1>9. \A n \in 1..1 : n = 1
  OBVIOUS
<1>10. Ordered(f, <<p>>, at)
  <2>1. \A n \in 1..Len(<<p>>) : OnAir(f, at[n], <<p>>[n])
    BY <1>5, <1>6, <1>8, <1>9
  <2>2. \A m, n \in 1..Len(<<p>>) : m < n => at[m] < at[n]
    BY <1>8, <1>9
  <2>3. \A i \in 1..Len(f) : f[i].kind = "address" => \E n \in 1..Len(<<p>>) : i = at[n]
    BY <1>3, <1>7, <1>8
  <2> QED BY <1>8, <2>1, <2>2, <2>3 DEF Ordered
<1> QED BY <1>10 DEF f

(* A page that begins a new batch joins those on the air.                   *)
LEMMA OrderedBehind ==
  ASSUME NEW w, Transmission(w), NEW v, NEW p \in Pages, Fits(p),
         NEW ps \in Seq(Pages), NEW at, Ordered(w, ps, at),
         startIndex(p) = 1 => w[Len(w)] = Idle,
         Len(v) = Len(w) + BatchEnd(p),
         \A i \in 1..Len(w) : v[i] = w[i],
         \A i \in Len(w) + 1..Len(v) : v[i] = WordOf(p, i - 1 - Len(w))
  PROVE  \E new : Ordered(v, Append(ps, p), new)
<1>1. PICK s \in 1..15 : s = startIndex(p)
  BY EndIndex, PagesArePages
<1>2. PICK B \in Nat : B = BatchEnd(p) /\ B >= 17
  BY WholeBatches
<1>3. PICK L \in Nat : L = Len(w) /\ L % 17 = 0 /\ L >= 17
  BY DEF Transmission, Whole
<1>4. /\ Len(v) = L + B /\ \A i \in 1..L : v[i] = w[i]
      /\ \A i \in L + 1..L + B : v[i] = WordOf(p, i - 1 - L) /\ i - 1 - L \in Nat
  <2>1. \A i \in L + 1..L + B : i - 1 - L \in Nat
    OBVIOUS
  <2> QED BY <1>2, <1>3, <2>1
<1>5. v[L + 2].kind # "data"
  <2>1. L + 2 \in L + 1..L + B /\ (L + 2) - 1 - L = 1
    BY <1>2
  <2>2. v[L + 2] = WordOf(p, 1)
    BY <1>4, <2>1
  <2>3. CASE s = 1
    <3>1. WordOf(p, 1).kind = "address"
      <4>1. 1 \in Nat /\ 1 = startIndex(p)
        BY <1>1, <2>3
      <4> QED BY <4>1, FrameWords
    <3> QED BY <2>2, <3>1
  <2>4. CASE s # 1
    <3>1. 1 \in 1..s - 1
      BY <2>4
    <3>2. WordOf(p, 1) = Idle
      BY <1>1, <3>1, FrameWords
    <3> QED BY <2>2, <3>2, Kinds
  <2> QED BY <2>3, <2>4
<1>6. \A j \in L + 1..L + s : v[j].kind # "address"
  <2> TAKE j \in L + 1..L + s
  <2>1. j \in L + 1..L + B /\ j - 1 - L \in Nat /\ j - 1 - L # s
    BY <1>2
  <2> QED BY <1>1, <1>4, <2>1, FrameWords
<1>7. /\ L \in Nat \ {0} /\ L + 2 \in L + 1..L + 2 /\ (L + 2) % 17 # 1
      /\ \A j \in L + 1..(L + 2) - 1 : j % 17 = 1
      /\ L <= L + B /\ L <= L + s /\ L <= L
  BY <1>3
<1>8. \A j \in L + s + 1..L + B : v[j] = WordOf(p, j - 1 - L)
  <2> TAKE j \in L + s + 1..L + B
  <2>1. j \in L + 1..L + B
    OBVIOUS
  <2> QED BY <1>4, <2>1
<1>9. \A j \in L + 1..L : FALSE
  OBVIOUS
<1>10. Synched(w)
  BY DEF Transmission, Whole
<1> QED
  <2> DEFINE h == L
             y == L + 2
             base == L
  <2>1. /\ Len(w) = L /\ Len(v) = L + B /\ Len(w) \in Nat /\ Len(v) \in Nat
        /\ Len(w) <= Len(v) /\ h <= Len(w) /\ h \in Nat \ {0} /\ y \in h + 1..h + 2
        /\ base \in Nat /\ base % 17 = 0 /\ Len(v) = base + BatchEnd(p)
        /\ h <= base + startIndex(p) /\ y % 17 # 1
    BY <1>1, <1>2, <1>3, <1>4, <1>7
  <2>2. /\ \A j \in 1..h : v[j] = w[j]
        /\ \A j \in h + 1..Len(w) : w[j] \in {Synch, Idle}
        /\ \A j \in h + 1..y - 1 : j % 17 = 1
        /\ y <= Len(v) => v[y].kind # "data"
        /\ \A j \in h + 1..base + startIndex(p) : v[j].kind # "address"
        /\ \A j \in base + startIndex(p) + 1..Len(v) : v[j] = WordOf(p, j - 1 - base)
    BY <1>1, <1>3, <1>4, <1>5, <1>6, <1>7, <1>8, <1>9
  <2> HIDE DEF h, y, base
  <2> QED BY <1>10, <2>1, <2>2, OnePageMore

(* A page that begins in the last batch joins those on the air.             *)
LEMMA OrderedInside ==
  ASSUME NEW w, Transmission(w), NEW v, NEW p \in Pages, Fits(p),
         NEW ps \in Seq(Pages), NEW at, Ordered(w, ps, at),
         \A i \in Len(w) - 17 + startIndex(p)..Len(w) : w[i] \in {Synch, Idle},
         Len(v) = Len(w) + BatchEnd(p) - 17,
         \A i \in 1..Len(w) - 17 + startIndex(p) : v[i] = w[i],
         \A i \in Len(w) - 17 + startIndex(p) + 1..Len(v) : v[i] = WordOf(p, i - 1 - (Len(w) - 17))
  PROVE  \E new : Ordered(v, Append(ps, p), new)
<1>1. PICK s \in 1..15 : s = startIndex(p)
  BY EndIndex, PagesArePages
<1>2. PICK B \in Nat : B = BatchEnd(p) /\ B >= 17
  BY WholeBatches
<1>3. PICK L \in Nat : L = Len(w) /\ L % 17 = 0 /\ L >= 17
  BY DEF Transmission, Whole
<1>4. PICK base \in Nat : base = L - 17 /\ base % 17 = 0
  <2>1. L % 17 = 0 /\ L >= 17
    BY <1>3
  <2>2. L - 17 \in Nat /\ (L - 17) % 17 = 0
    BY <2>1
  <2> QED BY <2>2
<1>5. PICK h \in Nat \ {0} : h = base + s /\ h <= L
  <2>1. base = L - 17
    BY <1>4
  <2>2. base + s \in Nat \ {0} /\ base + s <= L
    BY <2>1
  <2> QED BY <2>2
<1>6. /\ Len(v) = base + B
      /\ \A i \in h..L : w[i] \in {Synch, Idle}
      /\ \A i \in 1..h : v[i] = w[i]
      /\ \A i \in h + 1..base + B : v[i] = WordOf(p, i - 1 - base)
  <2>1. h = Len(w) - 17 + startIndex(p) /\ base = Len(w) - 17
    BY <1>1, <1>3, <1>4, <1>5
  <2>2. Len(v) = base + B
    BY <1>2, <1>3, <1>4
  <2> QED BY <1>3, <2>1, <2>2
<1>7. v[h + 1].kind # "data"
  <2>1. h + 1 \in h + 1..base + B /\ (h + 1) - 1 - base = s
    BY <1>2, <1>5
  <2>2. v[h + 1] = WordOf(p, s)
    BY <1>6, <2>1
  <2>3. WordOf(p, s).kind = "address"
    BY <1>1, FrameWords
  <2> QED BY <2>2, <2>3
<1> DEFINE y == h + 1
<1>8. /\ Len(w) \in Nat /\ Len(v) \in Nat /\ Len(w) <= Len(v) /\ h <= Len(w)
      /\ y \in h + 1..h + 2 /\ Len(v) = base + BatchEnd(p)
      /\ h <= base + startIndex(p) /\ y % 17 # 1
  <2>1. Len(w) = L /\ Len(v) = base + B /\ L <= base + B
    BY <1>2, <1>3, <1>4, <1>6
  <2>2. y % 17 # 1
    BY <1>4, <1>5
  <2>3. h <= base + startIndex(p)
    BY <1>1, <1>5
  <2> QED BY <1>2, <1>5, <2>1, <2>2, <2>3
<1>9. /\ \A j \in h + 1..Len(w) : w[j] \in {Synch, Idle}
      /\ \A j \in h + 1..y - 1 : j % 17 = 1
      /\ y <= Len(v) => v[y].kind # "data"
      /\ \A j \in h + 1..base + startIndex(p) : v[j].kind # "address"
      /\ \A j \in base + startIndex(p) + 1..Len(v) : v[j] = WordOf(p, j - 1 - base)
  <2>1. \A j \in h + 1..Len(w) : j \in h..L
    BY <1>3
  <2>2. \A j \in h + 1..y - 1 : FALSE
    OBVIOUS
  <2>3. base + startIndex(p) = h
    BY <1>1, <1>5
  <2>4. \A j \in h + 1..h : FALSE
    OBVIOUS
  <2> QED BY <1>6, <1>7, <2>1, <2>2, <2>3, <2>4
<1>10. Synched(w)
  BY DEF Transmission, Whole
<1> HIDE DEF y
<1> QED BY <1>4, <1>6, <1>8, <1>9, <1>10, OnePageMore

-----------------------------------------------------------------------------
(* The invariant.                                                           *)

(* The invariant: of the variables, of the batches and of the room in the   *)
(* buffer, and, when no word of a page looks idle, of the words on the air. *)
(* A first page that does not fit leaves at least eight batches that nobody *)
(* set.                                                                     *)
Shape ==
  /\ open \in BOOLEAN /\ pages \in Seq(Pages) /\ Len(pages) <= MaxPages
  /\ open <=> pages # <<>>
  /\ ~open => words = <<>>

Batches ==
  open => IF Fits(pages[1]) THEN Whole(words)
          ELSE words \in Seq({Unset}) /\ Len(words) % 17 = 0 /\ Len(words) >= 136

Room == Len(pages) > 1 => POCSAG_PREAMBLE_LENGTH + 4 * Len(words) < MaxBytes

BInv == Shape /\ Batches /\ Room

Laid == open /\ Fits(pages[1]) => Transmission(words) /\ \E at : Ordered(words, pages, at)

IInv == BInv /\ Laid

(* The buffer append may fill holds eight batches at most: where words      *)
(* nobody set would be copied, nothing is appended.                         *)
LEMMA LongestTransmission ==
  MaxPages \in Nat \ {0} /\ MaxBytes \in Nat /\ MaxBytes <= 616
BY PagingAssumption DEF POCSAG_PREAMBLE_LENGTH, BufferSize, POCSAG_WORD_PER_BATCH, POCSAG_MAX_BATCH_PER_TX

(* When no word of a page looks idle, idle words are told by their bits, and *)
(* so are synch words.                                                      *)
LEMMA ToldByTheirBits ==
  ASSUME NoneLooksIdle
  PROVE  IdleWords = {Idle} /\ SynchWords = {Synch}
<1>1. CodeWord(Synch) = POCSAG_SYNCH_CODEWORD
  BY Kinds DEF CodeWord
<1>2. CodeWord(Idle) = POCSAG_IDLE_CODEWORD
  BY Kinds DEF CodeWord
<1>3. POCSAG_SYNCH_CODEWORD # POCSAG_IDLE_CODEWORD
  <2>1. 25 \in POCSAG_IDLE_CODEWORD /\ 25 \notin POCSAG_SYNCH_CODEWORD
    BY DEF POCSAG_SYNCH_CODEWORD, POCSAG_IDLE_CODEWORD
  <2> QED BY <2>1
<1>4. \A w \in AllWords : w \notin {Synch, Idle} =>
        CodeWord(w) # POCSAG_SYNCH_CODEWORD /\ CodeWord(w) # POCSAG_IDLE_CODEWORD
  BY DEF AllWords, NoneLooksIdle
<1>5. Synch \in AllWords /\ Idle \in AllWords
  BY DEF AllWords
<1> QED BY <1>1, <1>2, <1>3, <1>4, <1>5 DEF IdleWords, SynchWords

(* Behind firstAvailableByte there are idle and synch words only.           *)
LEMMA FirstAvailableIsLast ==
  ASSUME NoneLooksIdle,
         NEW i \in 1..Len(words), Len(words) \in Nat, words[i] \notin {Synch, Idle}
  PROVE  FirstAvailable \in Nat /\ i <= FirstAvailable
<1> DEFINE used == {n \in 1..Len(words) : words[n] \notin {Synch, Idle}}
           behind == {Len(words) - n : n \in used}
<1>1. i \in used
  OBVIOUS
<1>2. PICK x \in behind : \A y \in behind : x <= y
  <2>1. behind \subseteq Nat /\ behind # {}
    BY <1>1
  <2> HIDE DEF behind
  <2> QED BY <2>1, LeastNumber
<1>3. PICK m \in used : x = Len(words) - m
  BY <1>2
<1>4. \A j \in used : j <= m
  <2> TAKE j \in used
  <2>1. Len(words) - j \in behind
    OBVIOUS
  <2>2. Len(words) - m <= Len(words) - j
    BY <1>2, <1>3, <2>1
  <2> QED BY <2>2
<1> DEFINE a == CHOOSE n \in used : \A j \in used : j <= n
<1>5. a \in used /\ \A j \in used : j <= a
  BY <1>4
<1>6. FirstAvailable = a
  <2>1. IdleWords \cup SynchWords = {Synch, Idle}
    BY ToldByTheirBits
  <2> QED BY <1>1, <2>1 DEF FirstAvailable
<1> HIDE DEF a
<1> QED BY <1>1, <1>5, <1>6

(* The invariant holds at the start.                                        *)
LEMMA InitInv == Init => IInv
<1> SUFFICES ASSUME Init PROVE IInv
  OBVIOUS
<1>1. Shape
  <2>1. open = FALSE /\ pages = <<>> /\ words = <<>>
    BY DEF Init
  <2>2. pages \in Seq(Pages) /\ Len(pages) = 0
    BY <2>1
  <2>3. open \in BOOLEAN /\ (open <=> pages # <<>>) /\ (~open => words = <<>>)
    BY <2>1, Zenon
  <2>4. Len(pages) <= MaxPages
    BY <2>2, LongestTransmission
  <2> QED BY <2>2, <2>3, <2>4 DEF Shape
<1> QED BY <1>1 DEF Init, IInv, BInv, Batches, Laid, Room

(* encode establishes it.                                                   *)
LEMMA EncodeInv ==
  ASSUME BInv, NEW p \in Pages, encode(p)
  PROVE  IInv'
<1>1. words' = buildFrame(p, 0, BatchEnd(p)) /\ pages' = <<p>> /\ open' = TRUE
  BY DEF encode
<1>2. pages'[1] = p /\ Len(pages') = 1 /\ pages' \in Seq(Pages) /\ pages' # <<>>
  BY <1>1
<1>3. Shape'
  BY <1>1, <1>2, LongestTransmission DEF Shape
<1>4. Room'
  BY <1>2 DEF Room
<1>5. CASE Fits(p)
  <2>1. Transmission(words')
    BY <1>1, <1>5, FirstPage
  <2>2. \E at : Ordered(words', pages', at)
    BY <1>1, <1>5, FirstOrdered
  <2> QED BY <1>2, <1>3, <1>4, <1>5, <2>1, <2>2 DEF IInv, BInv, Batches, Laid, Transmission
<1>6. CASE ~Fits(p)
  <2>1. BatchEnd(p) \in Nat /\ BatchEnd(p) % 17 = 0 /\ BatchEnd(p) >= 136
    BY <1>6, WholeBatches
  <2>2. words' \in Seq(Words) /\ Len(words') = BatchEnd(p) /\ \A i \in 1..BatchEnd(p) : words'[i] = Unset
    BY <1>1, <1>6, <2>1, NoFrame
  <2>3. words' \in Seq({Unset})
    BY <2>2
  <2> QED BY <1>2, <1>3, <1>4, <1>6, <2>1, <2>2, <2>3 DEF IInv, BInv, Batches, Laid, Transmission
<1> QED BY <1>5, <1>6

(* append keeps the batches: both pages fit, and it begins a batch or goes  *)
(* on in the last one.                                                      *)
LEMMA AppendBatches ==
  ASSUME BInv, NEW p \in Pages, append(p)
  PROVE  /\ BInv'
         /\ open /\ open' = open /\ pages # <<>> /\ pages \in Seq(Pages)
         /\ pages' = Append(pages, p) /\ pages'[1] = pages[1]
         /\ Fits(p) /\ Fits(pages[1])
         /\ Whole(words) /\ Len(words) \in Nat /\ Len(words) >= 17
         /\ ~NeedsPreamble(p) /\ words' = Appended(p)
<1>1. /\ open /\ Len(pages) < MaxPages /\ ~NeedsPreamble(p)
      /\ ~(POCSAG_PREAMBLE_LENGTH + 4 * NewLength(p) >= MaxBytes)
      /\ words' = Appended(p) /\ pages' = Append(pages, p) /\ open' = open
  BY DEF append, Refused
<1>2. /\ pages \in Seq(Pages) /\ pages # <<>> /\ Len(pages) \in Nat /\ Len(pages) >= 1
  BY <1>1 DEF BInv, Shape
<1>3. /\ pages' \in Seq(Pages) /\ Len(pages') = Len(pages) + 1 /\ pages'[1] = pages[1] /\ pages' # <<>>
  BY <1>1, <1>2
<1>4. Shape'
  BY <1>1, <1>2, <1>3, LongestTransmission DEF BInv, Shape
<1>5. BatchEnd(p) \in Nat /\ BatchEnd(p) >= 17 /\ (~Fits(p) => BatchEnd(p) >= 136)
  BY WholeBatches
<1>6. PICK n \in Nat : n = NewLength(p) /\ n = Len(words) + BatchEnd(p) - (IF NewBatch(p) THEN 0 ELSE 17)
  <2>1. Len(words) \in Nat
    BY <1>1 DEF BInv, Batches, Whole
  <2> QED BY <1>5, <2>1 DEF NewLength, POCSAG_WORD_PER_BATCH
<1>7. 72 + 4 * n < MaxBytes /\ n < 136
  BY <1>1, <1>6, LongestTransmission DEF POCSAG_PREAMBLE_LENGTH
<1>8. Whole(words) /\ Len(words) \in Nat /\ Len(words) >= 17
  <2>1. Fits(pages[1])
    <3> SUFFICES ASSUME ~Fits(pages[1]) PROVE FALSE
      OBVIOUS
    <3>1. Len(words) >= 136 /\ Len(words) \in Nat
      BY <1>1 DEF BInv, Batches
    <3> QED BY <1>5, <1>6, <1>7, <3>1
  <2> QED BY <1>1, <2>1 DEF BInv, Batches, Whole
<1>9. Fits(p) /\ Fits(pages[1])
  <2>1. Fits(p)
    <3> SUFFICES ASSUME ~Fits(p) PROVE FALSE
      OBVIOUS
    <3> QED BY <1>5, <1>6, <1>7, <1>8
  <2>2. Fits(pages[1])
    <3> SUFFICES ASSUME ~Fits(pages[1]) PROVE FALSE
      OBVIOUS
    <3>1. Len(words) >= 136 /\ Len(words) \in Nat
      BY <1>1 DEF BInv, Batches
    <3> QED BY <1>5, <1>6, <1>7, <3>1
  <2> QED BY <2>1, <2>2
<1>10. Whole(words') /\ Len(words') = n
  <2>1. CASE NewBatch(p)
    <3>1. words' = words \o buildFrame(p, 0, BatchEnd(p))
      BY <1>1, <2>1 DEF Appended
    <3>2. Whole(words') /\ Len(words') = Len(words) + BatchEnd(p)
      BY <1>8, <1>9, <3>1, WholeBehind
    <3> QED BY <1>5, <1>6, <1>8, <2>1, <3>2
  <2>2. CASE ~NewBatch(p)
    <3> DEFINE h == Len(words) - 17 + startIndex(p)
    <3>1. Here(p) = h
      BY DEF Here, POCSAG_WORD_PER_BATCH
    <3>2. words' = SubSeq(words, 1, h) \o buildFrame(p, startIndex(p), BatchEnd(p))
      BY <1>1, <2>2, <3>1 DEF Appended
    <3>3. Whole(words') /\ Len(words') = Len(words) + BatchEnd(p) - 17
      BY <1>8, <1>9, <3>2, WholeInside
    <3> QED BY <1>5, <1>6, <1>8, <2>2, <3>3
  <2> QED BY <2>1, <2>2
<1>11. Room'
  BY <1>7, <1>10 DEF Room, POCSAG_PREAMBLE_LENGTH
<1>12. Batches'
  BY <1>3, <1>9, <1>10 DEF Batches
<1>13. BInv'
  BY <1>4, <1>11, <1>12 DEF BInv
<1> QED BY <1>1, <1>2, <1>3, <1>8, <1>9, <1>13

(* And when no word looks idle it keeps the transmission: a page that begins *)
(* in the last batch begins behind an idle word, one with the first frame   *)
(* never does.                                                              *)
LEMMA AppendInv ==
  ASSUME NoneLooksIdle, IInv, NEW p \in Pages, append(p)
  PROVE  IInv'
<1>1. /\ BInv'
      /\ open /\ open' = open /\ pages # <<>> /\ pages \in Seq(Pages)
      /\ pages' = Append(pages, p) /\ pages'[1] = pages[1]
      /\ Fits(p) /\ Fits(pages[1])
      /\ Transmission(words) /\ Len(words) \in Nat /\ Len(words) >= 17
      /\ ~NeedsPreamble(p) /\ words' = Appended(p)
  BY AppendBatches DEF IInv, Laid
<1>2. PICK at : Ordered(words, pages, at)
  BY <1>1 DEF IInv, Laid
<1>3. Transmission(words') /\ \E new : Ordered(words', pages', new)
  <2>1. CASE NewBatch(p)
    <3>1. words' = words \o buildFrame(p, 0, BatchEnd(p))
      BY <1>1, <2>1 DEF Appended
    <3>2. startIndex(p) = 1 => words[Len(words)] = Idle
      BY <1>1, ToldByTheirBits DEF NeedsPreamble
    <3>3. Transmission(words')
      BY <1>1, <3>1, <3>2, BehindABatch
    <3>4. /\ Len(words') = Len(words) + BatchEnd(p)
          /\ \A i \in 1..Len(words) : words'[i] = words[i]
          /\ \A i \in Len(words) + 1..Len(words') : words'[i] = WordOf(p, i - 1 - Len(words))
      BY <1>1, <3>1, <3>2, BehindABatch
    <3>5. \E new : Ordered(words', pages', new)
      BY <1>1, <1>2, <1>1, <1>2, <3>2, <3>4, OrderedBehind
    <3> QED BY <1>1, <2>1, <3>3, <3>4, <3>5
  <2>2. CASE ~NewBatch(p)
    <3> DEFINE h == Len(words) - 17 + startIndex(p)
    <3>1. Here(p) = h
      BY DEF Here, POCSAG_WORD_PER_BATCH
    <3>2. words' = SubSeq(words, 1, h) \o buildFrame(p, startIndex(p), BatchEnd(p))
      BY <1>1, <2>2, <3>1 DEF Appended
    <3>3. PICK s \in 1..15 : s = startIndex(p)
      BY EndIndex, PagesArePages
    <3>4. h \in 1..Len(words) /\ h \in Nat
      <4>1. Len(words) \in Nat /\ Len(words) >= 17
        BY <1>1
      <4> QED BY <3>3, <4>1
    <3>5. \A i \in h..Len(words) : words[i] \in {Synch, Idle}
      <4> SUFFICES ASSUME NEW i \in h..Len(words), words[i] \notin {Synch, Idle} PROVE FALSE
        OBVIOUS
      <4>1. i \in 1..Len(words) /\ i >= h
        BY <1>1, <3>4
      <4>2. FirstAvailable \in Nat /\ i <= FirstAvailable
        BY <1>1, <4>1, FirstAvailableIsLast
      <4> HIDE DEF h
      <4>3. h <= FirstAvailable
        BY <3>4, <4>1, <4>2
      <4> QED BY <2>2, <3>1, <4>3 DEF NewBatch
    <3>6. startIndex(p) # 1
      <4> SUFFICES ASSUME startIndex(p) = 1 PROVE FALSE
        OBVIOUS
      <4>1. PICK j \in Len(words) - 15..Len(words) : words[j] \notin {Synch, Idle}
        BY <1>1 DEF Transmission, Whole, UsedToTheEnd
      <4>2. j \in h..Len(words)
        BY <1>1, <4>1
      <4> QED BY <3>5, <4>1, <4>2
    <3>7. words[h] = Idle
      <4>1. h \in h..Len(words)
        BY <1>1, <3>4
      <4>2. h % 17 # 1
        <5>1. Len(words) % 17 = 0 /\ s # 1
          BY <1>1, <3>3, <3>6 DEF Transmission, Whole
        <5>2. h = Len(words) - 17 + s
          BY <3>3
        <5> HIDE DEF h
        <5> QED BY <1>1, <5>1, <5>2
      <4>3. words[h] # Synch
        BY <1>1, <3>4, <4>2 DEF Transmission, Whole, Synched, POCSAG_WORD_PER_BATCH
      <4> QED BY <3>5, <4>1, <4>3
    <3>8. Transmission(words') /\ Len(words') = Len(words) + BatchEnd(p) - 17
      BY <1>1, <3>2, <3>6, <3>7, InTheBatch
    <3>9. /\ \A i \in 1..h : words'[i] = words[i]
          /\ \A i \in h + 1..Len(words') : words'[i] = WordOf(p, i - 1 - (Len(words) - 17))
      BY <1>1, <3>2, <3>6, <3>7, InTheBatch
    <3>10. \E new : Ordered(words', pages', new)
      BY <1>1, <1>2, <1>1, <1>2, <3>5, <3>8, <3>9, OrderedInside
    <3> QED BY <1>1, <2>2, <3>8, <3>10
  <2> QED BY <2>1, <2>2
<1> QED BY <1>1, <1>3 DEF IInv, Laid

(* When the transmission is sent nothing is left.                           *)
LEMMA SendInv == Send => IInv'
<1> SUFFICES ASSUME Send PROVE IInv'
  OBVIOUS
<1>1. open' = FALSE /\ pages' = <<>> /\ words' = <<>>
  BY DEF Send
<1>2. pages' \in Seq(Pages) /\ Len(pages') = 0
  BY <1>1
<1>3. Shape'
  <2>1. open' \in BOOLEAN /\ (open' <=> pages' # <<>>) /\ (~open' => words' = <<>>)
    BY <1>1, Zenon
  <2>2. Len(pages') <= MaxPages
    BY <1>2, LongestTransmission
  <2> QED BY <1>2, <2>1, <2>2 DEF Shape
<1> QED BY <1>1, <1>2, <1>3 DEF IInv, BInv, Batches, Laid, Room

(* Every step keeps the batches.                                            *)
LEMMA NextBatches == BInv /\ [Next]_vars => BInv'
<1> SUFFICES ASSUME BInv, [Next]_vars PROVE BInv'
  OBVIOUS
<1>1. ASSUME NEW p \in Pages, encode(p) PROVE BInv'
  BY <1>1, EncodeInv DEF IInv
<1>2. ASSUME NEW p \in Pages, append(p) PROVE BInv'
  BY <1>2, AppendBatches
<1>3. CASE Send
  BY <1>3, SendInv DEF IInv
<1>4. CASE UNCHANGED vars
  BY <1>4 DEF vars, BInv, Shape, Batches, Room, Fits, endIndex, startIndex, wordCount, Whole, Synched
<1>5. Next => Send \/ \E p \in Pages : encode(p) \/ append(p)
  BY DEF Next, Refuse
<1> QED BY <1>1, <1>2, <1>3, <1>4, <1>5

(* And the transmission when no word looks idle.                            *)
LEMMA NextInv ==
  ASSUME NoneLooksIdle
  PROVE  IInv /\ [Next]_vars => IInv'
<1> SUFFICES ASSUME IInv, [Next]_vars PROVE IInv'
  OBVIOUS
<1>1. ASSUME NEW p \in Pages, encode(p) PROVE IInv'
  BY <1>1, EncodeInv DEF IInv
<1>2. ASSUME NEW p \in Pages, append(p) PROVE IInv'
  BY <1>2, AppendInv
<1>3. CASE Send
  BY <1>3, SendInv
<1>4. CASE UNCHANGED vars
  BY <1>4 DEF vars, IInv, BInv, Shape, Batches, Laid, Room, Fits, endIndex, startIndex, wordCount, Transmission, Whole, Synched, UsedToTheEnd, Gaps
<1>5. Next => Send \/ \E p \in Pages : encode(p) \/ append(p)
  BY DEF Next, Refuse
<1> QED BY <1>1, <1>2, <1>3, <1>4, <1>5

(* So they always hold.                                                     *)
THEOREM BatchesKept == Spec => []BInv
<1>1. Init => BInv
  BY InitInv DEF IInv
<1> QED BY <1>1, NextBatches, PTL DEF Spec

THEOREM Invariance ==
  ASSUME NoneLooksIdle
  PROVE  Spec => []IInv
BY InitInv, NextInv, PTL DEF Spec

-----------------------------------------------------------------------------
(* What a pager hears.                                                      *)

(* Sets that a function puts in one-to-one relation have as many elements.  *)
LEMMA CountedBy ==
  ASSUME NEW S, NEW T, IsFiniteSet(S), NEW f \in [S -> T],
         \A x, y \in S : f[x] = f[y] => x = y,
         \A t \in T : \E x \in S : f[x] = t
  PROVE  IsFiniteSet(T) /\ Cardinality(T) = Cardinality(S)
<1>1. f \in Surjection(S, T) /\ f \in Injection(S, T)
  BY DEF Surjection, Injection, IsInjective
<1> QED BY <1>1, FS_Surjection

(* The c words behind i that are not synch words.                           *)
Spread(i, c) == {j \in Nat \ {0} : j % 17 # 1 /\ Place(j) \in Place(i) + 1..Place(i) + c}

(* They are c words.                                                        *)
LEMMA SpreadCount ==
  ASSUME NEW i \in Nat \ {0}, NEW c \in Nat
  PROVE  IsFiniteSet(Spread(i, c)) /\ Cardinality(Spread(i, c)) = c
<1>1. PICK b \in Nat : b = Place(i)
  BY PlacesInOrder
<1> DEFINE S == Spread(i, c)
           f == [k \in 1..c |-> CHOOSE j \in S : Place(j) = b + k]
<1>2. \A k \in 1..c : \E j \in S : Place(j) = b + k
  <2> TAKE k \in 1..c
  <2>1. b + k \in Nat \ {0} /\ b + k \in b + 1..b + c
    OBVIOUS
  <2>2. PICK j \in Nat \ {0} : j % 17 # 1 /\ Place(j) = b + k
    BY <2>1, PlaceExists
  <2> QED BY <1>1, <2>1, <2>2 DEF Spread
<1> HIDE DEF S
<1>3. \A k \in 1..c : f[k] \in S /\ Place(f[k]) = b + k
  BY <1>2
<1>4. f \in [1..c -> S]
  BY <1>3
<1> HIDE DEF f
<1>5. \A x, y \in 1..c : f[x] = f[y] => x = y
  <2> TAKE x, y \in 1..c
  <2> HAVE f[x] = f[y]
  <2>1. b + x = b + y
    BY <1>3
  <2> QED BY <2>1
<1>6. \A t \in S : \E x \in 1..c : f[x] = t
  <2> TAKE t \in S
  <2>1. t \in Nat \ {0} /\ t % 17 # 1 /\ Place(t) \in b + 1..b + c
    BY <1>1 DEF S, Spread
  <2>2. PICK x \in 1..c : Place(t) = b + x
    <3>1. PICK z \in b + 1..b + c : z = Place(t)
      BY <2>1
    <3>2. z - b \in 1..c /\ z = b + (z - b)
      OBVIOUS
    <3> QED BY <3>1, <3>2
  <2>3. f[x] \in Nat \ {0} /\ f[x] % 17 # 1 /\ Place(f[x]) = Place(t)
    BY <1>3, <2>2 DEF S, Spread
  <2>4. f[x] = t
    <3> DEFINE u == f[x]
    <3>1. u \in Nat \ {0} /\ u % 17 # 1 /\ Place(u) = Place(t) /\ Place(u) \in Nat
      BY <2>3, PlacesInOrder
    <3> HIDE DEF u
    <3>2. ~(u < t)
      <4> SUFFICES ASSUME u < t PROVE FALSE
        OBVIOUS
      <4>1. Place(u) < Place(t)
        BY <2>1, <3>1, PlacesInOrder
      <4> QED BY <3>1, <4>1
    <3>3. ~(t < u)
      <4> SUFFICES ASSUME t < u PROVE FALSE
        OBVIOUS
      <4>1. Place(t) < Place(u)
        BY <2>1, <3>1, PlacesInOrder
      <4> QED BY <3>1, <4>1
    <3>4. u = t
      BY <2>1, <3>1, <3>2, <3>3
    <3> QED BY <3>4 DEF u
  <2> QED BY <2>4
<1>7. IsFiniteSet(1..c) /\ Cardinality(1..c) = c
  BY FS_Interval
<1> QED BY <1>4, <1>5, <1>6, <1>7, CountedBy DEF S

(* The rank of one of them is its distance, synch words left out.           *)
LEMMA SpreadRank ==
  ASSUME NEW i \in Nat \ {0}, NEW c \in Nat, NEW j \in Spread(i, c)
  PROVE  \E k \in 1..c : Place(j) = Place(i) + k /\ Rank(j, Spread(i, c)) = k
<1>1. PICK b \in Nat : b = Place(i)
  BY PlacesInOrder
<1>2. j \in Nat \ {0} /\ j % 17 # 1 /\ Place(j) \in b + 1..b + c
  BY <1>1 DEF Spread
<1>3. PICK k \in 1..c : Place(j) = b + k
  <2>1. PICK z \in b + 1..b + c : z = Place(j)
    BY <1>2
  <2>2. z - b \in 1..c /\ z = b + (z - b)
    OBVIOUS
  <2> QED BY <2>1, <2>2
<1>4. ASSUME NEW n \in Nat \ {0}, n % 17 # 1
      PROVE  (Place(n) \in b + 1..b + c /\ n <= j) <=> Place(n) \in b + 1..b + k
  <2>1. Place(n) \in Nat
    BY PlacesInOrder
  <2>2. n <= j => Place(n) <= b + k
    BY <1>2, <1>3, PlacesInOrder
  <2>3. j < n => b + k < Place(n)
    BY <1>2, <1>3, <1>4, PlacesInOrder
  <2> QED BY <1>2, <2>1, <2>2, <2>3
<1>5. {n \in Spread(i, c) : n <= j} = Spread(i, k)
  BY <1>1, <1>4 DEF Spread
<1>6. Rank(j, Spread(i, c)) = k
  <2>1. k \in Nat
    OBVIOUS
  <2> QED BY <1>5, <2>1, SpreadCount DEF Rank
<1> QED BY <1>1, <1>3, <1>6

(* A pager hears behind an address as many words as its page has.           *)
LEMMA HeardBehind ==
  ASSUME NEW i, NEW p \in Pages, Len(words) \in Nat, Synched(words), OnAir(words, i, p)
  PROVE  i \in Nat \ {0} /\ Behind(i) = Spread(i, wordCount(p))
<1>1. PICK c \in Nat : c = wordCount(p)
  BY EndIndex, PagesArePages
<1>2. PICK L \in Nat : L = Len(words)
  OBVIOUS
<1>3. PICK a \in 1..L : a = i
  BY <1>2 DEF OnAir
<1>4. /\ Place(L) >= Place(a) + c
      /\ \A j \in a + 1..L : \A k \in 1..c :
           j % 17 # 1 /\ Place(j) = Place(a) + k => words[j] = Data(p, k)
      /\ \A j \in a + 1..L :
           j % 17 # 1 /\ Place(j) = Place(a) + c + 1 => words[j].kind # "data"
      /\ \A j \in 1..L : words[j] = Synch <=> j % 17 = 1
  BY <1>1, <1>2, <1>3 DEF OnAir, Synched, POCSAG_WORD_PER_BATCH
<1>5. a \in Nat \ {0} /\ L \in Nat \ {0}
  OBVIOUS
<1>6. PICK b \in Nat : b = Place(a)
  BY <1>5, PlacesInOrder
<1>7. ASSUME NEW j \in Behind(a) PROVE j \in Spread(a, c)
  <2>1. j \in a + 1..L /\ words[j] # Synch /\ \A n \in a + 1..j : words[n] = Synch \/ words[n].kind = "data"
    BY <1>2, <1>7 DEF Behind
  <2>2. j \in Nat \ {0} /\ j % 17 # 1 /\ a < j
    <3>1. j \in 1..L
      BY <2>1
    <3> QED BY <1>4, <2>1, <3>1
  <2>3. b < Place(j) /\ Place(j) \in Nat
    BY <1>5, <1>6, <2>2, PlacesInOrder
  <2>4. Place(j) <= b + c
    <3> SUFFICES ASSUME b + c < Place(j) PROVE FALSE
      BY <2>3
    <3>1. b + c + 1 \in Nat \ {0}
      OBVIOUS
    <3>2. PICK x \in Nat \ {0} : x % 17 # 1 /\ Place(x) = b + c + 1
      BY <3>1, PlaceExists
    <3>3. x <= j
      <4> SUFFICES ASSUME j < x PROVE FALSE
        BY <2>2
      <4>1. Place(j) < Place(x)
        BY <2>2, <3>2, PlacesInOrder
      <4> QED BY <2>3, <3>2, <4>1
    <3>4. a < x
      <4> SUFFICES ASSUME x <= a PROVE FALSE
        OBVIOUS
      <4>1. Place(x) <= b
        BY <1>5, <1>6, PlacesInOrder
      <4> QED BY <3>2, <4>1
    <3>5. x \in a + 1..j /\ x \in a + 1..L /\ x \in 1..L
      BY <2>1, <3>3, <3>4
    <3>6. words[x].kind # "data"
      BY <1>4, <1>6, <3>2, <3>5
    <3>7. words[x] # Synch
      BY <1>4, <3>2, <3>5
    <3> QED BY <2>1, <3>5, <3>6, <3>7
  <2>5. Place(j) \in b + 1..b + c
    BY <2>3, <2>4
  <2> QED BY <1>6, <2>2, <2>5 DEF Spread
<1>8. ASSUME NEW j \in Spread(a, c) PROVE j \in Behind(a)
  <2>1. j \in Nat \ {0} /\ j % 17 # 1 /\ Place(j) \in b + 1..b + c
    BY <1>6, <1>8 DEF Spread
  <2>2. a < j
    <3> SUFFICES ASSUME j <= a PROVE FALSE
      BY <2>1
    <3>1. Place(j) <= b
      BY <1>5, <1>6, <2>1, PlacesInOrder
    <3> QED BY <2>1, <3>1
  <2>3. j <= L
    <3> SUFFICES ASSUME L < j PROVE FALSE
      BY <2>1
    <3>1. Place(L) < Place(j) /\ Place(L) \in Nat
      BY <1>5, <2>1, PlacesInOrder
    <3> QED BY <1>4, <1>6, <2>1, <3>1
  <2>4. j \in a + 1..L /\ j \in 1..L
    BY <2>1, <2>2, <2>3
  <2>5. words[j] # Synch
    BY <1>4, <2>1, <2>4
  <2>6. ASSUME NEW n \in a + 1..j, words[n] # Synch PROVE words[n].kind = "data"
    <3>1. n \in 1..L /\ n \in a + 1..L /\ a < n /\ n <= j /\ n \in Nat \ {0}
      BY <2>4
    <3>2. n % 17 # 1
      BY <1>4, <2>6, <3>1
    <3>3. b < Place(n) /\ Place(n) <= Place(j) /\ Place(n) \in Nat
      BY <1>5, <1>6, <2>1, <3>1, <3>2, PlacesInOrder
    <3>4. PICK z \in Nat : z = Place(n)
      BY <3>3
    <3>5. z - b \in 1..c /\ z = b + (z - b)
      BY <2>1, <3>3, <3>4
    <3>6. words[n] = Data(p, z - b)
      BY <1>4, <1>6, <3>1, <3>2, <3>4, <3>5
    <3> QED BY <3>6, Kinds
  <2> QED BY <1>2, <2>4, <2>5, <2>6 DEF Behind
<1>9. Behind(a) = Spread(a, c)
  BY <1>7, <1>8
<1> QED BY <1>1, <1>3, <1>9

(* They are the data words of the page, in order.                           *)
LEMMA HeardComplete ==
  ASSUME NEW i, NEW p \in Pages, Len(words) \in Nat, Synched(words), OnAir(words, i, p)
  PROVE  Hears(i, p)
<1>1. PICK c \in Nat : c = wordCount(p)
  BY EndIndex, PagesArePages
<1>2. i \in Nat \ {0} /\ Behind(i) = Spread(i, c)
  BY <1>1, HeardBehind
<1>3. words[i].type = p.type
  BY DEF OnAir, Address
<1>4. Cardinality(Behind(i)) = c
  BY <1>2, SpreadCount
<1>5. ASSUME NEW j \in Behind(i) PROVE words[j] = Data(p, Rank(j, Behind(i)))
  <2>1. j \in Spread(i, c)
    BY <1>2, <1>5
  <2>2. PICK k \in 1..c : Place(j) = Place(i) + k /\ Rank(j, Spread(i, c)) = k
    BY <1>2, <2>1, SpreadRank
  <2>3. j \in i + 1..Len(words) /\ j % 17 # 1
    BY <1>5, <2>1 DEF Behind, Spread
  <2>4. words[j] = Data(p, k)
    BY <1>1, <2>2, <2>3 DEF OnAir
  <2> QED BY <1>2, <2>2, <2>4
<1> QED BY <1>1, <1>3, <1>4, <1>5 DEF Hears

(* Two elements of a set have different ranks.                              *)
LEMMA RanksDiffer ==
  ASSUME NEW N \in Nat, NEW S \in SUBSET (1..N), NEW m \in S, NEW n \in S, Rank(m, S) = Rank(n, S)
  PROVE  m = n
<1>1. ASSUME NEW a \in S, NEW b \in S, a < b PROVE Rank(a, S) # Rank(b, S)
  <2> DEFINE A == {j \in S : j <= a}
             B == {j \in S : j <= b}
  <2>0. \A j \in S : j \in 1..N
    OBVIOUS
  <2>1. A \in SUBSET B /\ b \in B /\ b \notin A
    <3>1. a \in Nat /\ b \in Nat /\ \A j \in S : j \in Nat
      BY <2>0
    <3>2. \A j \in S : j <= a => j <= b
      BY <1>1, <3>1
    <3>3. b <= b /\ ~(b <= a)
      BY <1>1, <3>1
    <3> QED BY <1>1, <3>2, <3>3
  <2>2. IsFiniteSet(B)
    <3>1. IsFiniteSet(1..N)
      BY FS_Interval
    <3>2. B \in SUBSET (1..N)
      BY <2>0
    <3> QED BY <3>1, <3>2, FS_Subset
  <2>3. Cardinality(B) # Cardinality(A)
    BY <2>1, <2>2, FS_Subset
  <2> QED BY <2>3 DEF Rank
<1>2. m \in 1..N /\ n \in 1..N
  OBVIOUS
<1> QED BY <1>1, <1>2

(* As many addresses as pages.                                              *)
LEMMA ImageCount ==
  ASSUME NEW N \in Nat, NEW at \in [1..N -> Nat], \A m, n \in 1..N : m < n => at[m] < at[n],
         NEW S \in SUBSET (1..N)
  PROVE  Cardinality({at[n] : n \in S}) = Cardinality(S)
<1> DEFINE f == [n \in S |-> at[n]]
           T == {at[n] : n \in S}
<1>1. IsFiniteSet(S)
  <2>1. IsFiniteSet(1..N)
    BY FS_Interval
  <2> QED BY <2>1, FS_Subset
<1>2. f \in [S -> T] /\ \A t \in T : \E x \in S : f[x] = t
  OBVIOUS
<1>3. \A x, y \in S : f[x] = f[y] => x = y
  <2> TAKE x, y \in S
  <2> HAVE f[x] = f[y]
  <2>1. x \in 1..N /\ y \in 1..N /\ at[x] = at[y] /\ at[x] \in Nat
    OBVIOUS
  <2>2. ~(x < y) /\ ~(y < x)
    BY <2>1
  <2> QED BY <2>1, <2>2
<1> HIDE DEF f, T
<1>4. Cardinality(T) = Cardinality(S)
  BY <1>1, <1>2, <1>3, CountedBy
<1> QED BY <1>4 DEF T

(* If the pages are on the air in their order, each pager hears its own.    *)
LEMMA HeardInOrder ==
  ASSUME Len(words) \in Nat, Synched(words), pages \in Seq(Pages),
         NEW at, Ordered(words, pages, at)
  PROVE  EveryPagerHearsItsPages
<1> SUFFICES ASSUME NEW cap \in {p.capCode : p \in Pages}
             PROVE  LET sent == {n \in 1..Len(pages) : pages[n].capCode = cap}
                    IN /\ Cardinality(Calls(cap)) = Cardinality(sent)
                       /\ \A i \in Calls(cap), n \in sent :
                            Rank(i, Calls(cap)) = Rank(n, sent) => Hears(i, pages[n])
  BY DEF EveryPagerHearsItsPages
<1>1. PICK N \in Nat : N = Len(pages)
  OBVIOUS
<1>2. /\ at \in [1..N -> Nat] /\ \A n \in 1..N : OnAir(words, at[n], pages[n]) /\ pages[n] \in Pages
      /\ \A m, n \in 1..N : m < n => at[m] < at[n]
      /\ \A i \in 1..Len(words) : words[i].kind = "address" => \E n \in 1..N : i = at[n]
  BY <1>1 DEF Ordered
<1> DEFINE sent == {n \in 1..N : pages[n].capCode = cap}
<1>3. cap \in Nat
  BY PagingAssumption
<1>4. ASSUME NEW n \in 1..N
      PROVE  at[n] \in Calls(cap) <=> pages[n].capCode = cap
  <2> DEFINE p == pages[n]
             i == at[n]
  <2>1. p \in Pages /\ i \in 1..Len(words) /\ (i - 1) % 17 = startIndex(p) /\ words[i] = Address(p)
    BY <1>2 DEF OnAir
  <2>2. PICK c \in Nat : c = p.capCode
    BY <2>1, PagingAssumption
  <2>3. words[i].kind = "address" /\ words[i].address = c \div 8
    BY <2>1, <2>2 DEF Address
  <2>4. PICK x \in 0..7 : x = c % 8
    OBVIOUS
  <2>5. (i - 1) % 17 = 2 * x + 1
    BY <2>1, <2>2, <2>4 DEF startIndex
  <2>6. Frame(i) = x
    <3>1. ((2 * x + 1) - 1) \div 2 = x
      OBVIOUS
    <3> QED BY <2>5, <3>1 DEF Frame, POCSAG_WORD_PER_BATCH
  <2>7. i \in Calls(cap) <=> c \div 8 = cap \div 8 /\ x = cap % 8
    <3>1. 2 * x + 1 # 0
      OBVIOUS
    <3> HIDE DEF i
    <3> QED BY <2>1, <2>3, <2>5, <2>6, <3>1 DEF Calls, POCSAG_WORD_PER_BATCH
  <2>8. c \div 8 = cap \div 8 /\ c % 8 = cap % 8 <=> c = cap
    BY <1>3
  <2> QED BY <2>2, <2>4, <2>7, <2>8
<1>5. Calls(cap) = {at[n] : n \in sent}
  <2>1. ASSUME NEW i \in Calls(cap) PROVE \E n \in sent : i = at[n]
    <3>1. i \in 1..Len(words) /\ words[i].kind = "address"
      BY <2>1 DEF Calls
    <3>2. PICK n \in 1..N : i = at[n]
      BY <1>2, <3>1
    <3> QED BY <1>4, <2>1, <3>2
  <2>2. \A n \in sent : at[n] \in Calls(cap)
    BY <1>4
  <2> QED BY <2>1, <2>2
<1>6. Cardinality(Calls(cap)) = Cardinality(sent)
  <2>1. sent \in SUBSET (1..N)
    OBVIOUS
  <2> HIDE DEF sent
  <2>2. Cardinality({at[n] : n \in sent}) = Cardinality(sent)
    BY <1>2, <2>1, ImageCount
  <2> QED BY <1>5, <2>2
<1>7. ASSUME NEW i \in Calls(cap), NEW n \in sent, Rank(i, Calls(cap)) = Rank(n, sent)
      PROVE  Hears(i, pages[n])
  <2>1. PICK m \in sent : i = at[m]
    BY <1>5
  <2>2. {j \in Calls(cap) : j <= i} = {at[k] : k \in {l \in sent : l <= m}}
    <3>1. ASSUME NEW k \in sent PROVE at[k] <= at[m] <=> k <= m
      <4>1. k \in 1..N /\ m \in 1..N /\ at[k] \in Nat /\ at[m] \in Nat
        BY <1>2
      <4>2. k < m => at[k] < at[m]
        BY <1>2, <4>1
      <4>3. m < k => at[m] < at[k]
        BY <1>2, <4>1
      <4> QED BY <4>1, <4>2, <4>3
    <3> QED BY <1>5, <2>1, <3>1
  <2>3. Rank(i, Calls(cap)) = Rank(m, sent)
    <3> DEFINE S == {l \in sent : l <= m}
    <3>1. S \in SUBSET (1..N)
      OBVIOUS
    <3> HIDE DEF S
    <3>2. Cardinality({at[k] : k \in S}) = Cardinality(S)
      BY <1>2, <3>1, ImageCount
    <3> QED BY <2>2, <3>2 DEF Rank, S
  <2>4. sent \in SUBSET (1..N)
    OBVIOUS
  <2>5. m = n
    <3> HIDE DEF sent
    <3> QED BY <1>7, <2>3, <2>4, RanksDiffer
  <2>6. OnAir(words, i, pages[n]) /\ pages[n] \in Pages
    BY <1>2, <2>1, <2>5
  <2> QED BY <2>6, HeardComplete
<1> QED BY <1>1, <1>6, <1>7

-----------------------------------------------------------------------------
(* What holds of every transmission.                                        *)

(* The batches imply the type invariant.                                    *)
LEMMA BatchesTyped == BInv => TypeOK
<1> SUFFICES ASSUME BInv PROVE TypeOK
  OBVIOUS
<1>1. CASE ~open
  BY <1>1, LongestTransmission
     DEF BInv, Shape, TypeOK, POCSAG_WORD_PER_BATCH, POCSAG_PREAMBLE_LENGTH
<1>2. CASE open /\ Fits(pages[1])
  BY <1>2 DEF BInv, Shape, Batches, Room, Whole, Synched, TypeOK, POCSAG_WORD_PER_BATCH
<1>3. CASE open /\ ~Fits(pages[1])
  BY <1>3 DEF BInv, Shape, Batches, Room, TypeOK, POCSAG_WORD_PER_BATCH
<1> QED BY <1>1, <1>2, <1>3

(* The invariant implies what is promised to the pagers.                    *)
LEMMA InvPromises == IInv => GapBeforeAddress /\ EveryPagerHearsItsPages
<1> SUFFICES ASSUME IInv PROVE GapBeforeAddress /\ EveryPagerHearsItsPages
  OBVIOUS
<1>1. CASE ~open
  BY <1>1 DEF IInv, BInv, Shape, GapBeforeAddress, EveryPagerHearsItsPages
<1>2. CASE open /\ Fits(pages[1])
  <2>1. Transmission(words) /\ (\E at : Ordered(words, pages, at)) /\ Shape
    BY <1>2 DEF IInv, BInv, Laid
  <2>2. GapBeforeAddress
    BY <2>1 DEF Transmission, Gaps, GapBeforeAddress
  <2>3. EveryPagerHearsItsPages
    BY <2>1, HeardInOrder DEF Transmission, Whole, Shape
  <2> QED BY <2>2, <2>3
<1>3. CASE open /\ ~Fits(pages[1])
  <2>1. words \in Seq({Unset})
    BY <1>3 DEF IInv, BInv, Batches
  <2>2. \A i \in 1..Len(words) : words[i].kind # "address"
    BY <2>1, Kinds
  <2> QED BY <1>3, <2>2 DEF EveryPagerHearsItsPages, GapBeforeAddress
<1> QED BY <1>1, <1>2, <1>3

(* A transmission is whole batches, each with its synch word in front and   *)
(* nowhere else, and append never fills the buffer of the caller.           *)
THEOREM TypeCorrectness == Spec => []TypeOK
BY BatchesKept, BatchesTyped, PTL

(* When no word of a page has the bits of an idle or a synch word, no       *)
(* address follows data, also not with a synch word between them: append    *)
(* leaves an idle word, or begins another transmission.                     *)
THEOREM GapKept ==
  ASSUME NoneLooksIdle
  PROVE  Spec => []GapBeforeAddress
BY Invariance, InvPromises, PTL

(* When no word of a page has the bits of an idle or a synch word, then     *)
(* whatever pages share a transmission, and however they were put between   *)
(* each other, every pager hears exactly its own, each complete and in      *)
(* their order.                                                             *)
THEOREM PagesHeard ==
  ASSUME NoneLooksIdle
  PROVE  Spec => []EveryPagerHearsItsPages
BY Invariance, InvPromises, PTL

=============================================================================

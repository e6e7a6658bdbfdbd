---------------------------- MODULE OcrRecognize ----------------------------
(***************************************************************************)
(* recognize and recognizeBatch (internal/ai/ocr.go): the crops of one     *)
(* image are read in batches of similar width, and every text goes back to *)
(* the crop it was read from.                                              *)
(*                                                                         *)
(* The network is external: it gives for each crop of a batch the same     *)
(* number of classes, one after another.  Widths are small numbers and the *)
(* bound of a batch is one to match.                                       *)
(***************************************************************************)
EXTENDS Integers, Sequences, SequencesExt, Ranking

CONSTANTS
  Boxes,          \* the number of text boxes
  Widths,         \* how wide their crops may be, at the recognizer's height
  Readings,       \* the class sequences the network may give for a crop
  MaxBatchWidth   \* recMaxBatchWidth

ASSUME OcrRecognizeAssumption ==
  /\ Boxes \in Nat /\ Widths \subseteq Nat \ {0} /\ MaxBatchWidth \in Nat
  /\ Readings \subseteq Seq(Nat) /\ \A r, s \in Readings : Len(r) = Len(s)

Crops == 1..Boxes
BlankClass == 0

VARIABLES
  widths, reading,  \* of each crop
  byWidth,            \* the crops by width
  start,            \* of the batches made, where the next one starts in order
  batches,          \* history: the batches
  texts             \* what was read for each crop

recognizeVars == <<widths, reading, byWidth, start, batches, texts>>

\* The crops sorted by width: equal ones in any order.
Sorted(o) == \A i, j \in Crops : i < j => widths[o[i]] <= widths[o[j]]

RecognizeInit ==
  /\ widths \in [Crops -> Widths] /\ reading \in [Crops -> Readings]
  /\ byWidth \in SetToSeqs(Crops) /\ Sorted(byWidth)
  /\ start = 1 /\ batches = <<>>
  /\ texts = [k \in Crops |-> <<>>]

\* 1.25 times the width, rounded up.
PaddedWidth(w) == (5 * w + 3) \div 4

\* Whether the crops from start to end make a batch: the last is the widest.
Fits(end) ==
  /\ widths[byWidth[end]] <= 2 * widths[byWidth[start]]
  /\ (end - start + 1) * PaddedWidth(widths[byWidth[end]]) <= MaxBatchWidth

\* A batch is as long as every crop after its first one fits.
End == CHOOSE end \in start..Boxes :
         /\ \A i \in start + 1..end : Fits(i)
         /\ end < Boxes => ~Fits(end + 1)

\* What the network gives for a batch, crop after crop.
Output(batch) ==
  LET steps == Len(reading[batch[1]])
  IN  [n \in 1..Len(batch) * steps |->
         reading[batch[(n - 1) \div steps + 1]][((n - 1) % steps) + 1]]

\* Of the steps from..to, those whose class is neither blank nor the one
\* before it.
\* Bug form: the first step is compared with the last one of another crop.
DecodeAcross(classes, from, to) ==
  LET kept == Ascending({i \in from..to :
                          /\ classes[i] # BlankClass
                          /\ i = 1 \/ classes[i] # classes[i - 1]})
  IN  [n \in DOMAIN kept |-> classes[kept[n]]]
Decode(classes, from, to) ==
  LET kept == Ascending({i \in from..to :
                          /\ classes[i] # BlankClass
                          /\ i = from \/ classes[i] # classes[i - 1]})
  IN  [n \in DOMAIN kept |-> classes[kept[n]]]

\* The next batch is read and its texts put back.
RecognizeBatch ==
  /\ start <= Boxes
  /\ LET batch == SubSeq(byWidth, start, End)
         classes == Output(batch)
         steps == Len(classes) \div Len(batch)
     IN  /\ batches' = Append(batches, batch)
         /\ texts' = [k \in Crops |->
              IF \E b \in DOMAIN batch : batch[b] = k
                THEN LET b == CHOOSE b \in DOMAIN batch : batch[b] = k
                     IN  Decode(classes, (b - 1) * steps + 1, b * steps)
                ELSE texts[k]]
  /\ start' = End + 1
  /\ UNCHANGED <<widths, reading, byWidth>>

RecognizeNext == RecognizeBatch
RecognizeSpec == RecognizeInit /\ [][RecognizeNext]_recognizeVars

RecognizeTypeOK ==
  /\ start \in 1..Boxes + 1
  /\ batches \in Seq(Seq(Crops))
  /\ \A k \in Crops : texts[k] \in Seq(UNION {ToSet(r) : r \in Readings})

\* When all is read, the text of every box is what its own crop alone would
\* have given, whichever crops shared its batch and in which order.
TextsOfTheirCrops ==
  start > Boxes =>
    \A k \in Crops : texts[k] = Decode(reading[k], 1, Len(reading[k]))

\* Where crop k is: the number of a batch, and of a place in it.
PlacesOf(k) == {p \in (DOMAIN batches) \X Crops :
                p[2] \in DOMAIN batches[p[1]] /\ batches[p[1]][p[2]] = k}

\* Every crop is in one place of one batch, none is padded to far over twice
\* its width, and only a crop on its own is beyond the bound of a batch.
BatchesBounded ==
  /\ start > Boxes => \A k \in Crops : \E p \in (DOMAIN batches) \X Crops : PlacesOf(k) = {p}
  /\ \A n \in DOMAIN batches : LET b == batches[n] IN
       \A k, j \in ToSet(b) :
         /\ widths[k] <= 2 * widths[j]
         /\ Len(b) > 1 => Len(b) * PaddedWidth(widths[k]) <= MaxBatchWidth

\* Reading in batches changes nothing but the time it takes.
BatchesRight == TextsOfTheirCrops /\ BatchesBounded
=============================================================================

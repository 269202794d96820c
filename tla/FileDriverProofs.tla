---------------------------- MODULE FileDriverProofs ----------------------------
(***************************************************************************)
(* An input that the bzip2 command has removed is whole in its output,     *)
(* for any number of files, of pieces and of names on the command line.    *)
(*                                                                         *)
(* The inductive invariant follows the present file through the program:   *)
(* what its output holds and still waits for at each place (Progress),     *)
(* where both of its files are there (Present), where nothing waits and    *)
(* nothing would be deleted (Quiet), and that as long as the output may    *)
(* still be written or deleted it is not the output of an input that has   *)
(* been removed before (Apart).                                            *)
(*                                                                         *)
(* Beside it Mine says that an output in use is there and holds pieces of  *)
(* inputs only, so that what is written and deleted is not the file of     *)
(* another process.                                                        *)
(*                                                                         *)
(* StatusInv says what an exit status of 0 will have promised, for the     *)
(* files dealt with so far; it rests on all of the above.                  *)
(***************************************************************************)
EXTENDS FileDriver, SequenceTheorems, TLAPS
LOCAL INSTANCE SequencesExt
Lemmas == INSTANCE StreamLemmas

ToFile == src = "F2F" /\ op # "TEST"

(* The places at which the output of the present file is open or complete,  *)
(* and the input has not been removed.                                      *)
Busy == pc \in {"arm", "stream", "copy", "close", "return", "times", "disarm", "removeInput", "badMagic"}

Items == (Inputs \cup {"other"}) \X {"new", "raw"} \X Nat

Lost(n) == n \notin dir /\ kind[n] # "trailing" /\ ~Replaceable(n)
Separate == \A n \in Inputs : Lost(n) => outOf[n] # Out

TypeInv ==
  /\ op \in {"Z", "UNZ", "TEST"} /\ src \in {"F2F", "F2O"}
  /\ args \in Seq(Inputs) /\ outOf \in [Inputs -> Outputs] /\ kind \in [Inputs -> Kinds]
  /\ fileNo \in 0..Len(args)
  /\ pc \in {"next", "check", "open", "arm", "stream", "copy", "close", "return", "times",
             "disarm", "removeInput", "badMagic", "cleanup", "exited", "killed"}
  /\ pc \notin {"next", "cleanup", "exited", "killed"} => fileNo > 0
  /\ dir \subseteq Inputs \cup Outputs
  /\ disk \in [Outputs \cup {Stdout} -> Seq(Items)] /\ buf \in Seq(Items)
  /\ got \in 0..Pieces /\ step \in Nat

(* Where inputs are not removed at all.                                     *)
KeepsInputs ==
  /\ ~ToFile => Inputs \subseteq dir
  /\ src # "F2F" => pc \notin {"times", "disarm", "removeInput"}
  /\ op = "TEST" => pc \in {"next", "check", "open", "stream", "cleanup", "exited", "killed"}

Present == ToFile /\ Busy => Name \in dir /\ Out \in dir

Quiet ==
  ToFile =>
    /\ pc \in {"next", "check", "open", "arm", "return", "times", "disarm", "removeInput", "badMagic"}
         => buf = <<>>
    /\ pc \in {"next", "check", "open", "removeInput", "badMagic"} => ~armed
    /\ pc = "cleanup" /\ armed => fileNo > 0

Apart == ToFile /\ ~Ended /\ (Busy \/ armed \/ buf # <<>>) => Separate

Progress ==
  ToFile =>
    /\ pc \in {"check", "open", "arm"} => got = 0
    /\ pc = "arm" => disk[Out] = <<>>
    /\ pc = "stream" => disk[Out] \o buf = IF kind[Name] = "notbz" THEN <<>> ELSE Data(Name, "new", got)
    /\ pc = "copy" => /\ kind[Name] \in {"notbz", "trailing"}
                      /\ kind[Name] = "notbz" => disk[Out] \o buf = Data(Name, "raw", got)
    /\ pc = "close" => /\ step \in 1..5 /\ (step > 3 => buf = <<>>)
                       /\ kind[Name] # "trailing" => disk[Out] \o buf = Whole(Name)
    /\ pc = "return" /\ kind[Name] # "trailing" /\ magicNumberOK => disk[Out] = Whole(Name)
    /\ pc \in {"times", "disarm", "removeInput"} /\ kind[Name] # "trailing" => disk[Out] = Whole(Name)

IInv == TypeInv /\ KeepsInputs /\ Present /\ Quiet /\ Apart /\ Progress /\ NothingLost

------------------------------------------------------------------------------
LEMMA NameFacts ==
  ASSUME TypeInv, fileNo > 0
  PROVE  /\ Name \in Inputs /\ Out \in Outputs \cup {Stdout}
         /\ src = "F2F" => Out = outOf[Name] /\ Out \in Outputs
         /\ src # "F2F" => Out = Stdout
BY DEF TypeInv, Name, Out

LEMMA PieceIsItem ==
  ASSUME NEW n \in Inputs, NEW form \in {"new", "raw"}, NEW j \in Nat
  PROVE  Piece(n, form, j) \in Items
BY DEF Piece, Items

LEMMA DataNext ==
  ASSUME NEW n \in Inputs, NEW form \in {"new", "raw"}, NEW len \in Nat
  PROVE  /\ Data(n, form, len) \in Seq(Items) /\ Data(n, form, 0) = <<>>
         /\ Data(n, form, len + 1) = Append(Data(n, form, len), Piece(n, form, len + 1))
<1>1. ASSUME NEW k \in Nat PROVE Data(n, form, k) \in Seq(Items) /\ Len(Data(n, form, k)) = k
  <2>1. \A j \in 1..k : Piece(n, form, j) \in Items
    BY PieceIsItem
  <2> QED BY <2>1 DEF Data
<1>2. Data(n, form, 0) = <<>>
  BY <1>1
<1>3. Data(n, form, len + 1) = Append(Data(n, form, len), Piece(n, form, len + 1))
  BY <1>1 DEF Data
<1> QED BY <1>1, <1>2, <1>3

LEMMA ConcatAppend ==
  ASSUME NEW S, NEW s \in Seq(S), NEW t \in Seq(S), NEW e \in S
  PROVE  s \o Append(t, e) = Append(s \o t, e)
OBVIOUS

LEMMA ConcatEmpty ==
  ASSUME NEW S, NEW s \in Seq(S)
  PROVE  s \o <<>> = s /\ <<>> \o s = s
OBVIOUS

(* A piece is added to what is written or waits, or the program gives up.   *)
LEMMA fwriteAdds ==
  ASSUME TypeInv, fileNo > 0, NEW piece \in Items, fwrite(piece), UNCHANGED <<settings, fileNo>>
  PROVE  /\ disk' \in [Outputs \cup {Stdout} -> Seq(Items)] /\ buf' \in Seq(Items)
         /\ \A o \in Outputs \cup {Stdout} : o # Out => disk'[o] = disk[o]
         /\ \/ pc' = pc /\ disk'[Out] \o buf' = Append(disk[Out] \o buf, piece)
            \/ pc' = "cleanup" /\ buf' = <<>>
<1>1. Out \in Outputs \cup {Stdout} /\ disk \in [Outputs \cup {Stdout} -> Seq(Items)] /\ buf \in Seq(Items)
  BY NameFacts DEF TypeInv
<1>2. Append(buf, piece) \in Seq(Items) /\ disk[Out] \in Seq(Items)
      /\ disk[Out] \o Append(buf, piece) \in Seq(Items)
      /\ disk[Out] \o Append(buf, piece) = Append(disk[Out] \o buf, piece)
  <2>1. Append(buf, piece) \in Seq(Items) /\ disk[Out] \in Seq(Items)
    BY <1>1
  <2>2. disk[Out] \o Append(buf, piece) = Append(disk[Out] \o buf, piece)
    <3> DEFINE held == disk[Out]
    <3>1. held \in Seq(Items) /\ buf \in Seq(Items) /\ piece \in Items
      BY <1>1, <2>1
    <3> HIDE DEF held
    <3>2. held \o Append(buf, piece) = Append(held \o buf, piece)
      BY <3>1, ConcatAppend
    <3> QED BY <3>2 DEF held
  <2>3. disk[Out] \o Append(buf, piece) \in Seq(Items)
    BY <2>1
  <2> QED BY <2>1, <2>2, <2>3
<1>3. CASE buf' = Append(buf, piece) /\ UNCHANGED <<disk, pc, failCode>>
  BY <1>1, <1>2, <1>3
<1>4. CASE disk' = [disk EXCEPT ![Out] = @ \o Append(buf, piece)] /\ buf' = <<>> /\ UNCHANGED <<pc, failCode>>
  <2>1. disk'[Out] = disk[Out] \o Append(buf, piece)
    BY <1>1, <1>4
  <2>2. disk'[Out] \o buf' = Append(disk[Out] \o buf, piece)
    BY <1>2, <1>4, <2>1, ConcatEmpty
  <2>3. /\ disk' \in [Outputs \cup {Stdout} -> Seq(Items)] /\ buf' \in Seq(Items)
        /\ \A o \in Outputs \cup {Stdout} : o # Out => disk'[o] = disk[o]
    BY <1>1, <1>2, <1>4
  <2> QED BY <1>4, <2>2, <2>3
<1>5. CASE buf' = <<>> /\ UNCHANGED disk /\ Fail(1)
  BY <1>1, <1>5 DEF Fail
<1> QED BY <1>3, <1>4, <1>5 DEF fwrite
------------------------------------------------------------------------------
(* What a step keeps of a file that it does not change for another.         *)
LEMMA SameFile ==
  ASSUME UNCHANGED <<settings, fileNo>>
  PROVE  /\ op' = op /\ src' = src /\ force' = force /\ keep' = keep
         /\ args' = args /\ outOf' = outOf /\ kind' = kind /\ fileNo' = fileNo
         /\ Name' = Name /\ Out' = Out /\ ToFile' = ToFile /\ magicNumberOK' = magicNumberOK
         /\ \A n : Whole(n)' = Whole(n) /\ Replaceable(n)' = Replaceable(n)
BY DEF settings, Name, Out, ToFile, magicNumberOK, Whole, Replaceable

LEMMA LostBefore ==
  ASSUME UNCHANGED settings, Inputs \cap dir \subseteq dir', NEW n \in Inputs, Lost(n)'
  PROVE  Lost(n) /\ outOf' = outOf /\ Whole(n)' = Whole(n)
BY DEF settings, Lost, Replaceable, Whole

(* The outputs of the inputs that are gone are left alone.                  *)
LEMMA SafeKept ==
  ASSUME NothingLost, UNCHANGED settings, Inputs \cap dir \subseteq dir',
         \A n \in Inputs : Lost(n) /\ outOf[n] \in dir
                             => outOf[n] \in dir' /\ disk'[outOf[n]] = disk[outOf[n]]
  PROVE  NothingLost'
<1> SUFFICES ASSUME NEW n \in Inputs, Lost(n)'
             PROVE  outOf'[n] \in dir' /\ disk'[outOf'[n]] = Whole(n)'
  BY DEF NothingLost, Lost
<1>1. Lost(n) /\ outOf' = outOf /\ Whole(n)' = Whole(n)
  BY LostBefore
<1>2. outOf[n] \in dir /\ disk[outOf[n]] = Whole(n)
  BY <1>1 DEF NothingLost, Lost
<1> QED BY <1>1, <1>2

LEMMA SeparateKept ==
  ASSUME UNCHANGED <<settings, fileNo>>, Inputs \cap dir \subseteq dir', Separate
  PROVE  Separate'
<1>1. UNCHANGED settings /\ Out' = Out
  BY SameFile
<1> QED BY <1>1, LostBefore DEF Separate

(* A step that leaves both files and the buffer as they are.                *)
LEMMA StillStep ==
  ASSUME IInv, UNCHANGED <<settings, fileNo, dir, disk, buf>>, ~Ended,
         Busy' => Busy, armed' => armed \/ Busy
  PROVE  Present' /\ Apart' /\ NothingLost'
<1>1. Name' = Name /\ Out' = Out /\ ToFile' = ToFile /\ UNCHANGED <<settings, dir, disk, buf>>
  BY SameFile
<1>2. Present'
  BY <1>1 DEF IInv, Present
<1>3. Apart'
  <2>1. Separate => Separate'
    BY SeparateKept
  <2> QED BY <1>1, <2>1 DEF IInv, Apart
<1>4. NothingLost'
  BY <1>1, SafeKept DEF IInv
<1> QED BY <1>2, <1>3, <1>4

(* A step after which cleanUpAndFail is all that is left.                   *)
LEMMA GivesUp ==
  ASSUME IInv, UNCHANGED <<settings, fileNo, dir, disk, got, step, armed>>, ~Ended,
         pc' = "cleanup", buf' \in {buf, <<>>}
  PROVE  IInv'
<1>1. Out' = Out /\ ToFile' = ToFile /\ UNCHANGED <<settings, dir, disk>>
  BY SameFile
<1>2. TypeInv'
  <2>1. buf' \in Seq(Items)
    <3>1. buf \in Seq(Items)
      BY DEF IInv, TypeInv
    <3>2. <<>> \in Seq(Items)
      OBVIOUS
    <3> QED BY <3>1, <3>2
  <2>2. /\ op' = op /\ src' = src /\ args' = args /\ outOf' = outOf /\ kind' = kind
        /\ fileNo' = fileNo /\ got' = got /\ step' = step
    BY SameFile
  <2> QED BY <1>1, <2>1, <2>2 DEF IInv, TypeInv
<1>3. KeepsInputs' /\ Progress' /\ Present'
  BY SameFile, <1>1 DEF IInv, KeepsInputs, Progress, Present, Busy
<1>6. Quiet'
  <2>1. ToFile /\ armed => fileNo > 0
    BY DEF IInv, TypeInv, Quiet, Ended
  <2>2. armed' = armed /\ fileNo' = fileNo
    OBVIOUS
  <2> QED BY <1>1, <2>1, <2>2 DEF Quiet
<1>4. Apart'
  <2>1. Separate => Separate'
    BY <1>1, SeparateKept
  <2> QED BY <1>1, <2>1 DEF IInv, Apart, Busy
<1>5. NothingLost'
  BY <1>1, SafeKept DEF IInv
<1> QED BY <1>2, <1>3, <1>4, <1>5, <1>6 DEF IInv

------------------------------------------------------------------------------
(* The steps that write nothing and remove nothing.                         *)
LEMMA StillActions ==
  ASSUME IInv,
         Refuse \/ Arm \/ EndOfData \/ TryCat \/ EndOfCopy \/ Return \/ Disarm \/ Test
  PROVE  IInv'
<1>1. UNCHANGED <<settings, fileNo, dir, disk, buf>>
  BY DEF Refuse, Arm, EndOfData, TryCat, EndOfCopy, Return, Disarm, Test
<1>2. ~Ended /\ (Busy' => Busy) /\ (armed' => armed \/ Busy)
  BY DEF Refuse, Arm, EndOfData, AtMagic, TryCat, EndOfCopy, Return, Disarm, Test, Ended, Busy, Skip, Goto
<1>3. Present' /\ Apart' /\ NothingLost'
  BY <1>1, <1>2, StillStep
<1>4. /\ op' = op /\ src' = src /\ args' = args /\ outOf' = outOf /\ kind' = kind /\ fileNo' = fileNo
      /\ Name' = Name /\ Out' = Out /\ ToFile' = ToFile /\ magicNumberOK' = magicNumberOK
      /\ dir' = dir /\ disk' = disk /\ buf' = buf
      /\ \A n : Whole(n)' = Whole(n)
  BY <1>1, SameFile
<1>5. TypeInv'
  <2>1. got' \in 0..Pieces /\ step' \in Nat
    BY NamesAssumption DEF IInv, TypeInv, Refuse, Arm, EndOfData, TryCat, EndOfCopy, Return, Disarm, Test
  <2>2. /\ pc' \in {"next", "check", "open", "arm", "stream", "copy", "close", "return", "times",
                    "disarm", "removeInput", "badMagic", "cleanup", "exited", "killed"}
        /\ pc' = "next" \/ fileNo > 0
    BY DEF IInv, TypeInv, Refuse, Arm, EndOfData, AtMagic, TryCat, EndOfCopy, Return, Disarm, Test, Skip, Goto
  <2> QED BY <1>4, <2>1, <2>2 DEF IInv, TypeInv
<1>6. KeepsInputs'
  BY <1>4 DEF IInv, TypeInv, KeepsInputs, ToFile,
       Refuse, Arm, EndOfData, AtMagic, TryCat, EndOfCopy, Return, Disarm, Test, Skip, Goto
<1>7. Quiet'
  <2>1. CASE Refuse \/ Arm \/ Test
    BY <1>4, <2>1 DEF IInv, Quiet, ToFile, Refuse, Arm, Test, Skip, Goto
  <2>2. CASE EndOfData \/ TryCat \/ EndOfCopy
    BY <1>4, <2>2 DEF IInv, Quiet, EndOfData, TryCat, EndOfCopy, Goto
  <2>3. CASE Return \/ Disarm
    BY <1>4, <2>3 DEF IInv, Quiet, ToFile, Return, Disarm, Goto
  <2> QED BY <2>1, <2>2, <2>3
<1>8. Progress'
  <2> SUFFICES ASSUME ToFile PROVE Progress'
    BY <1>4 DEF Progress
  <2>0. TypeInv /\ Quiet /\ Progress
    BY DEF IInv
  <2>1. CASE Refuse
    BY <1>4, <2>1 DEF Progress, Refuse, Skip, Goto
  <2>2. CASE Arm
    <3>1. pc = "arm" /\ pc' = "stream" /\ fileNo > 0 /\ got' = got
      BY <2>0, <2>2 DEF Arm, Goto, TypeInv
    <3>2. buf = <<>> /\ got = 0 /\ disk[Out] = <<>>
      BY <2>0, <3>1 DEF Quiet, Progress
    <3>3. Name \in Inputs /\ Data(Name, "new", 0) = <<>>
      BY <2>0, <3>1, NameFacts, DataNext
    <3>4. disk[Out] \o buf = <<>>
      BY <3>2
    <3> QED BY <1>4, <3>1, <3>2, <3>3, <3>4 DEF Progress
  <2>3. CASE EndOfData
    <3>1. pc = "stream" /\ kind[Name] = "good" /\ got = Pieces /\ pc' = "close" /\ step' = 1
      BY <2>3 DEF EndOfData, Goto
    <3>2. disk[Out] \o buf = Whole(Name)
      BY <2>0, <3>1 DEF Progress, Whole
    <3> QED BY <1>4, <3>1, <3>2 DEF Progress
  <2>4. CASE TryCat
    <3>1. pc = "stream" /\ kind[Name] \in {"notbz", "trailing"} /\ pc' = "copy" /\ got' = 0 /\ fileNo > 0
      BY <2>0, <2>4 DEF TryCat, AtMagic, Goto, TypeInv
    <3>2. kind[Name] = "notbz" => disk[Out] \o buf = <<>>
      BY <2>0, <3>1 DEF Progress
    <3>3. Data(Name, "raw", 0) = <<>>
      BY <2>0, <3>1, NameFacts, DataNext
    <3> QED BY <1>4, <3>1, <3>2, <3>3 DEF Progress
  <2>5. CASE EndOfCopy
    <3>1. pc = "copy" /\ got = Pieces /\ pc' = "close" /\ step' = 1
      BY <2>5 DEF EndOfCopy, Goto
    <3>2. kind[Name] # "trailing" => disk[Out] \o buf = Whole(Name)
      BY <2>0, <3>1 DEF Progress, Whole
    <3> QED BY <1>4, <3>1, <3>2 DEF Progress
  <2>6. CASE Return
    <3>1. pc = "return" /\ pc' = IF magicNumberOK THEN "times" ELSE "badMagic"
      BY <2>6 DEF Return, Goto, ToFile
    <3>2. kind[Name] # "trailing" /\ magicNumberOK => disk[Out] = Whole(Name)
      BY <2>0, <3>1 DEF Progress
    <3> QED BY <1>4, <3>1, <3>2 DEF Progress
  <2>7. CASE Disarm
    <3>1. pc = "disarm" /\ pc' \in {"next", "removeInput"}
      BY <2>7 DEF Disarm, Goto
    <3>2. kind[Name] # "trailing" => disk[Out] = Whole(Name)
      BY <2>0, <3>1 DEF Progress
    <3> QED BY <1>4, <3>1, <3>2 DEF Progress
  <2>8. CASE Test
    BY <2>8 DEF Test, ToFile
  <2> QED BY <2>1, <2>2, <2>3, <2>4, <2>5, <2>6, <2>7, <2>8
<1> QED BY <1>3, <1>5, <1>6, <1>7, <1>8 DEF IInv
------------------------------------------------------------------------------
(* A step may write to the output of the present file, which is not that of *)
(* an input that is gone.                                                   *)
LEMMA WritesOwn ==
  ASSUME IInv, UNCHANGED settings, Inputs \cap dir \subseteq dir', dir \ {Out} \subseteq dir',
         Out \in dir' \/ (ToFile => Separate),
         \A o \in Outputs : o # Out => disk'[o] = disk[o],
         disk'[Out] = disk[Out] \/ (ToFile => Separate)
  PROVE  NothingLost'
<1>1. outOf \in [Inputs -> Outputs]
  BY DEF IInv, TypeInv
<1>2. ASSUME NEW n \in Inputs, Lost(n), outOf[n] \in dir
      PROVE  outOf[n] \in dir' /\ disk'[outOf[n]] = disk[outOf[n]]
  <2>1. ToFile
    BY <1>2 DEF IInv, KeepsInputs, Lost
  <2>2. CASE Separate
    BY <1>1, <1>2, <2>2 DEF Separate
  <2>3. CASE ~Separate
    BY <1>1, <1>2, <2>1, <2>3
  <2> QED BY <2>2, <2>3
<1> QED BY <1>2, SafeKept DEF IInv

(* Deliver and CopyRaw. *)
LEMMA WriteStep ==
  ASSUME IInv, op # "TEST", got < Pieces, NEW form \in {"new", "raw"},
         (pc = "stream" /\ form = "new" /\ kind[Name] # "notbz") \/ (pc = "copy" /\ form = "raw"),
         fwrite(Piece(Name, form, got + 1)), got' = got + 1,
         UNCHANGED <<settings, fileNo, dir, step, armed>>
  PROVE  IInv'
<1> DEFINE piece == Piece(Name, form, got + 1)
<1>1. /\ TypeInv /\ fileNo > 0 /\ Busy /\ ~Ended
      /\ got \in Nat /\ got' \in 0..Pieces /\ Pieces \in Nat
  BY NamesAssumption DEF IInv, TypeInv, Busy, Ended
<1>2. Name \in Inputs /\ Out \in Outputs \cup {Stdout} /\ (ToFile => Out \in Outputs)
  BY <1>1, NameFacts DEF ToFile
<1>3. piece \in Items
  BY <1>1, <1>2, PieceIsItem
<1>4. /\ disk' \in [Outputs \cup {Stdout} -> Seq(Items)] /\ buf' \in Seq(Items)
      /\ \A o \in Outputs \cup {Stdout} : o # Out => disk'[o] = disk[o]
      /\ \/ pc' = pc /\ disk'[Out] \o buf' = Append(disk[Out] \o buf, piece)
         \/ pc' = "cleanup" /\ buf' = <<>>
  <2>1. UNCHANGED <<settings, fileNo>>
    OBVIOUS
  <2> HIDE DEF piece
  <2>2. fwrite(piece)
    BY DEF piece
  <2> QED BY <1>1, <1>3, <2>1, <2>2, fwriteAdds
<1>5. /\ op' = op /\ src' = src /\ args' = args /\ outOf' = outOf /\ kind' = kind /\ fileNo' = fileNo
      /\ Name' = Name /\ Out' = Out /\ ToFile' = ToFile /\ dir' = dir /\ step' = step /\ armed' = armed
      /\ UNCHANGED settings
  BY SameFile
<1>6. TypeInv'
  BY <1>1, <1>4, <1>5 DEF TypeInv
<1>7. KeepsInputs' /\ Present' /\ Quiet'
  BY <1>1, <1>4, <1>5 DEF IInv, KeepsInputs, Present, Quiet, Busy
<1>8. ToFile => Separate
  BY <1>1 DEF IInv, Apart
<1>9. Apart'
  <2>1. Separate => Separate'
    BY <1>5, SeparateKept
  <2> QED BY <1>5, <1>8, <2>1 DEF Apart
<1>10. NothingLost'
  BY <1>4, <1>5, <1>8, WritesOwn
<1>11. Progress'
  <2> SUFFICES ASSUME ToFile, pc' = pc PROVE Progress'
    BY <1>4, <1>5 DEF Progress
  <2>1. pc' # "cleanup"
    BY <1>1 DEF Busy
  <2>2. disk'[Out] \o buf' = Append(disk[Out] \o buf, piece)
    BY <1>4, <2>1
  <2>3. Data(Name, form, got + 1) = Append(Data(Name, form, got), piece)
    BY <1>1, <1>2, DataNext
  <2>4. CASE pc = "stream"
    <3>1. disk[Out] \o buf = Data(Name, form, got)
      BY <2>4 DEF IInv, Progress
    <3>2. disk'[Out] \o buf' = Data(Name, form, got + 1)
      BY <2>2, <2>3, <3>1
    <3> QED BY <1>5, <2>4, <3>2 DEF Progress
  <2>5. CASE pc = "copy"
    <3>1. kind[Name] \in {"notbz", "trailing"}
          /\ (kind[Name] = "notbz" => disk[Out] \o buf = Data(Name, form, got))
      BY <2>5 DEF IInv, Progress
    <3>2. kind[Name] = "notbz" => disk'[Out] \o buf' = Data(Name, form, got + 1)
      BY <2>2, <2>3, <3>1
    <3> QED BY <1>5, <2>5, <3>1, <3>2 DEF Progress
  <2> QED BY <2>4, <2>5
<1> QED BY <1>6, <1>7, <1>9, <1>10, <1>11 DEF IInv

(* To write what waits is to keep the whole.                                *)
LEMMA Flushed ==
  ASSUME TypeInv, fileNo > 0, disk' = [disk EXCEPT ![Out] = @ \o buf], buf' = <<>>
  PROVE  /\ disk' \in [Outputs \cup {Stdout} -> Seq(Items)] /\ buf' \in Seq(Items)
         /\ \A o \in Outputs \cup {Stdout} : o # Out => disk'[o] = disk[o]
         /\ disk'[Out] = disk[Out] \o buf /\ disk'[Out] \o buf' = disk[Out] \o buf
<1>1. Out \in Outputs \cup {Stdout} /\ disk \in [Outputs \cup {Stdout} -> Seq(Items)] /\ buf \in Seq(Items)
  BY NameFacts DEF TypeInv
<1>2. disk[Out] \in Seq(Items)
  BY <1>1
<1>3. disk[Out] \o buf \in Seq(Items)
  BY <1>1, <1>2
<1>4. disk'[Out] = disk[Out] \o buf
  BY <1>1
<1>5. disk'[Out] \o buf' = disk[Out] \o buf
  BY <1>3, <1>4, ConcatEmpty
<1>6. disk' \in [Outputs \cup {Stdout} -> Seq(Items)]
      /\ \A o \in Outputs \cup {Stdout} : o # Out => disk'[o] = disk[o]
  BY <1>1, <1>3
<1>7. buf' \in Seq(Items)
  OBVIOUS
<1> QED BY <1>4, <1>5, <1>6, <1>7
LEMMA CloseStep == IInv /\ Close => IInv'
<1> SUFFICES ASSUME IInv, Close PROVE IInv'
  OBVIOUS
<1>1. /\ TypeInv /\ fileNo > 0 /\ Busy /\ ~Ended /\ op # "TEST" /\ pc = "close"
      /\ UNCHANGED <<settings, fileNo, dir, got, armed>>
  BY DEF IInv, TypeInv, KeepsInputs, Busy, Ended, Close
<1>2. /\ op' = op /\ src' = src /\ args' = args /\ outOf' = outOf /\ kind' = kind /\ fileNo' = fileNo
      /\ Name' = Name /\ Out' = Out /\ ToFile' = ToFile /\ dir' = dir /\ armed' = armed /\ got' = got
      /\ UNCHANGED settings /\ \A n : Whole(n)' = Whole(n)
  BY <1>1, SameFile
<1>3. CASE /\ Fail(1) /\ UNCHANGED <<step, disk>>
           /\ buf' = IF Closing[step] \in {"flush", "fclose"} THEN <<>> ELSE buf
  BY <1>1, <1>3, GivesUp DEF Fail
<1>4. CASE CloseStepWorks /\ step' = step + 1 /\ step <= Len(Closing)
             /\ Goto(IF step = Len(Closing) THEN "return" ELSE "close")
  <2>1. Out \in Outputs \cup {Stdout} /\ (ToFile => Out \in Outputs)
        /\ disk \in [Outputs \cup {Stdout} -> Seq(Items)] /\ buf \in Seq(Items)
    BY <1>1, NameFacts DEF TypeInv, ToFile
  <2>2. /\ disk' \in [Outputs \cup {Stdout} -> Seq(Items)] /\ buf' \in Seq(Items)
        /\ \A o \in Outputs \cup {Stdout} : o # Out => disk'[o] = disk[o]
        /\ disk'[Out] \o buf' = disk[Out] \o buf
        /\ buf' \in {buf, <<>>} /\ (Closing[step] \in {"flush", "fclose"} => buf' = <<>>)
    <3>1. CASE disk' = [disk EXCEPT ![Out] = @ \o buf] /\ buf' = <<>>
      BY <1>1, <3>1, Flushed
    <3>2. CASE UNCHANGED <<disk, buf>> /\ Closing[step] \notin {"flush", "fclose"}
      BY <2>1, <3>2
    <3> QED BY <1>4, <3>1, <3>2 DEF CloseStepWorks
  <2>3. step \in Nat /\ step' = step + 1 /\ pc' \in {"return", "close"}
        /\ (pc' = "return" <=> step = Len(Closing))
    BY <1>1, <1>4 DEF Goto, TypeInv
  <2>4. TypeInv'
    BY <1>1, <1>2, <2>2, <2>3, SMTT(30) DEF TypeInv
  <2>5. KeepsInputs' /\ Present'
    BY <1>1, <1>2, <2>3 DEF IInv, KeepsInputs, Present, Busy
  <2>6. ToFile => Separate
    BY <1>1 DEF IInv, Apart
  <2>7. Apart'
    <3>1. Separate => Separate'
      BY <1>2, SeparateKept
    <3> QED BY <1>2, <2>6, <3>1 DEF Apart
  <2>8. NothingLost'
    BY <1>2, <2>2, <2>6, WritesOwn
  <2>9. ASSUME ToFile
        PROVE  /\ pc' = "return" => buf' = <<>>
               /\ pc' = "close" => step' \in 1..5 /\ (step' > 3 => buf' = <<>>)
    <3>1. Len(Closing) = 5 /\ Closing[3] \in {"flush", "fclose"}
      BY <1>1, <2>9 DEF Closing, ToFile, TypeInv
    <3>2. step \in 1..5 /\ (step > 3 => buf = <<>>)
      BY <1>1, <2>9 DEF IInv, Progress
    <3>3. step >= 3 => buf' = <<>>
      BY <2>2, <3>1, <3>2
    <3> QED BY <2>3, <3>1, <3>2, <3>3
  <2>10. Quiet'
    BY <1>2, <2>3, <2>9 DEF Quiet
  <2>11. Progress'
    <3> SUFFICES ASSUME ToFile PROVE Progress'
      BY <1>2 DEF Progress
    <3>1. kind[Name] # "trailing" => disk'[Out] \o buf' = Whole(Name)
      BY <1>1, <2>2 DEF IInv, Progress
    <3>2. pc' = "return" /\ kind[Name] # "trailing" => disk'[Out] = Whole(Name)
      <4>1. disk'[Out] \in Seq(Items)
        BY <2>1, <2>2
      <4>2. disk'[Out] \o <<>> = disk'[Out]
        BY <4>1, ConcatEmpty
      <4> QED BY <2>9, <3>1, <4>2
    <3> QED BY <1>2, <2>3, <2>9, <3>1, <3>2 DEF Progress
  <2> QED BY <2>4, <2>5, <2>7, <2>8, <2>10, <2>11 DEF IInv
<1> QED BY <1>3, <1>4 DEF Close

(* Both files are closed at a bad magic number, without -f.                 *)
LEMMA MagicClosesStep == IInv /\ MagicCloses => IInv'
<1> SUFFICES ASSUME IInv, MagicCloses PROVE IInv'
  OBVIOUS
<1>1. /\ TypeInv /\ fileNo > 0 /\ Busy /\ ~Ended /\ op # "TEST" /\ pc = "stream" /\ pc' = "return"
      /\ UNCHANGED <<settings, fileNo, dir, got, step, armed>>
      /\ kind[Name] \in {"notbz", "trailing"} /\ ~force
  BY DEF IInv, TypeInv, Busy, Ended, MagicCloses, AtMagic, Goto
<1>2. /\ op' = op /\ src' = src /\ args' = args /\ outOf' = outOf /\ kind' = kind /\ fileNo' = fileNo
      /\ Name' = Name /\ Out' = Out /\ ToFile' = ToFile /\ dir' = dir /\ armed' = armed /\ got' = got
      /\ step' = step /\ UNCHANGED settings /\ magicNumberOK' = magicNumberOK
  BY <1>1, SameFile
<1>3. /\ disk' \in [Outputs \cup {Stdout} -> Seq(Items)] /\ buf' \in Seq(Items)
      /\ \A o \in Outputs \cup {Stdout} : o # Out => disk'[o] = disk[o]
      /\ ToFile => buf' = <<>>
  <2>1. disk \in [Outputs \cup {Stdout} -> Seq(Items)] /\ buf \in Seq(Items)
    BY <1>1 DEF TypeInv
  <2>2. CASE disk' = [disk EXCEPT ![Out] = @ \o buf] /\ buf' = <<>>
    BY <1>1, <2>2, Flushed
  <2>3. CASE disk' = disk /\ buf' = <<>>
    <3>1. <<>> \in Seq(Items)
      OBVIOUS
    <3> QED BY <2>1, <2>3, <3>1
  <2>4. CASE disk' = disk /\ buf' = buf /\ src # "F2F"
    BY <2>1, <2>4 DEF ToFile
  <2> QED BY <2>2, <2>3, <2>4 DEF MagicCloses
<1>4. TypeInv'
  BY <1>1, <1>2, <1>3 DEF TypeInv
<1>5. KeepsInputs' /\ Present' /\ Quiet'
  BY <1>1, <1>2, <1>3 DEF IInv, KeepsInputs, Present, Busy, Quiet
<1>6. ToFile => Separate
  BY <1>1 DEF IInv, Apart
<1>7. Apart'
  <2>1. Separate => Separate'
    BY <1>2, SeparateKept
  <2> QED BY <1>2, <1>6, <2>1 DEF Apart
<1>8. NothingLost'
  BY <1>2, <1>3, <1>6, WritesOwn
<1>9. Progress'
  <2>1. kind[Name] = "trailing" \/ ~magicNumberOK
    BY <1>1 DEF magicNumberOK
  <2> QED BY <1>1, <1>2, <2>1 DEF Progress
<1> QED BY <1>4, <1>5, <1>7, <1>8, <1>9 DEF IInv

LEMMA RemoveInputStep == IInv /\ RemoveInput => IInv'
<1> SUFFICES ASSUME IInv, RemoveInput PROVE IInv'
  OBVIOUS
<1>1. /\ TypeInv /\ fileNo > 0 /\ Busy /\ ~Ended /\ pc = "removeInput" /\ ToFile
      /\ UNCHANGED <<settings, fileNo, disk, buf, got, step, armed>>
  BY DEF IInv, TypeInv, KeepsInputs, ToFile, Busy, Ended, RemoveInput
<1>2. CASE UNCHANGED dir /\ Fail(1)
  BY <1>1, <1>2, GivesUp DEF Fail
<1>3. CASE dir' = dir \ {Name} /\ Goto("next")
  <2>1. /\ op' = op /\ src' = src /\ args' = args /\ outOf' = outOf /\ kind' = kind /\ fileNo' = fileNo
        /\ Name' = Name /\ Out' = Out /\ ToFile' = ToFile /\ disk' = disk /\ buf' = buf /\ armed' = armed
        /\ got' = got /\ step' = step /\ pc' = "next"
        /\ \A n : Whole(n)' = Whole(n) /\ Replaceable(n)' = Replaceable(n)
    BY <1>1, <1>3, SameFile DEF Goto
  <2>2. Name \in Inputs /\ Out = outOf[Name] /\ Out \in Outputs /\ Name \notin Outputs
    BY <1>1, NameFacts, NamesAssumption DEF ToFile
  <2>3. buf = <<>> /\ ~armed /\ Out \in dir
        /\ (kind[Name] # "trailing" => disk[Out] = Whole(Name))
    BY <1>1 DEF IInv, Quiet, Present, Progress
  <2>4. TypeInv'
    BY <1>1, <1>3, <2>1 DEF TypeInv
  <2>5. KeepsInputs' /\ Present' /\ Quiet' /\ Apart' /\ Progress'
    BY <1>1, <2>1, <2>3 DEF KeepsInputs, Present, Quiet, Apart, Progress, Busy
  <2>6. NothingLost'
    <3> SUFFICES ASSUME NEW n \in Inputs, Lost(n)'
                 PROVE  outOf[n] \in dir' /\ disk[outOf[n]] = Whole(n)
      BY <2>1 DEF NothingLost, Lost
    <3>1. n \notin dir' /\ kind[n] # "trailing" /\ ~Replaceable(n)
      BY <2>1 DEF Lost
    <3>2. outOf[n] \in Outputs /\ outOf[n] # Name
      BY <1>1, <2>2 DEF TypeInv
    <3>3. CASE n = Name
      BY <1>3, <2>2, <2>3, <3>1, <3>2, <3>3
    <3>4. CASE n # Name
      <4>1. n \notin dir
        BY <1>3, <3>1, <3>4
      <4>2. outOf[n] \in dir /\ disk[outOf[n]] = Whole(n)
        BY <3>1, <4>1 DEF IInv, NothingLost
      <4> QED BY <1>3, <3>2, <4>2
    <3> QED BY <3>3, <3>4
  <2> QED BY <2>4, <2>5, <2>6 DEF IInv
<1> QED BY <1>2, <1>3 DEF RemoveInput

LEMMA BadMagicStep == IInv /\ BadMagic => IInv'
<1> SUFFICES ASSUME IInv, BadMagic PROVE IInv'
  OBVIOUS
<1>1. /\ TypeInv /\ fileNo > 0 /\ Busy /\ ~Ended /\ pc = "badMagic" /\ op # "TEST"
      /\ UNCHANGED <<settings, fileNo, disk, buf, got, step, armed>>
  BY DEF IInv, TypeInv, KeepsInputs, Busy, Ended, BadMagic
<1>2. CASE UNCHANGED <<dir, exitValue>> /\ Fail(1)
  BY <1>1, <1>2, GivesUp DEF Fail
<1>3. CASE dir' = (IF src = "F2F" THEN dir \ {Out} ELSE dir) /\ Goto("next")
  <2>1. /\ op' = op /\ src' = src /\ args' = args /\ outOf' = outOf /\ kind' = kind /\ fileNo' = fileNo
        /\ Name' = Name /\ Out' = Out /\ ToFile' = ToFile /\ disk' = disk /\ buf' = buf /\ armed' = armed
        /\ got' = got /\ step' = step /\ pc' = "next" /\ UNCHANGED settings
    BY <1>1, <1>3, SameFile DEF Goto
  <2>2. Out \notin Inputs
    BY <1>1, NameFacts, NamesAssumption
  <2>3. ToFile => buf = <<>> /\ ~armed /\ Separate
    BY <1>1 DEF IInv, Quiet, Apart
  <2>4. TypeInv'
    BY <1>1, <1>3, <2>1 DEF TypeInv
  <2>5. Inputs \cap dir \subseteq dir' /\ dir \ {Out} \subseteq dir'
    BY <1>3, <2>2
  <2>6. KeepsInputs' /\ Present' /\ Quiet' /\ Apart' /\ Progress'
    BY <1>1, <2>1, <2>3, <2>5 DEF IInv, KeepsInputs, Present, Quiet, Apart, Progress, Busy
  <2>7. NothingLost'
    BY <2>1, <2>3, <2>5, WritesOwn
  <2> QED BY <2>4, <2>6, <2>7 DEF IInv
<1> QED BY <1>2, <1>3 DEF BadMagic
------------------------------------------------------------------------------
(* The opening of the files. *)
LEMMA NextFileStep == IInv /\ NextFile => IInv'
<1> SUFFICES ASSUME IInv, NextFile PROVE IInv'
  OBVIOUS
<1>1. /\ TypeInv /\ pc = "next" /\ pc' = "check" /\ fileNo' = fileNo + 1 /\ fileNo < Len(args)
      /\ got' = 0 /\ armed' = FALSE /\ UNCHANGED <<settings, dir, disk, buf, step>>
  BY DEF IInv, NextFile, Goto
<1>2. /\ op' = op /\ src' = src /\ args' = args /\ outOf' = outOf /\ kind' = kind
      /\ ToFile' = ToFile /\ dir' = dir /\ disk' = disk /\ buf' = buf /\ step' = step
  BY <1>1 DEF settings, ToFile
<1>3. TypeInv'
  BY <1>1, <1>2, NamesAssumption DEF TypeInv
<1>4. ToFile => buf = <<>>
  BY <1>1 DEF IInv, Quiet
<1>5. KeepsInputs' /\ Present' /\ Quiet' /\ Apart' /\ Progress'
  BY <1>1, <1>2, <1>4 DEF IInv, KeepsInputs, Present, Quiet, Apart, Progress, Busy
<1>6. NothingLost'
  BY <1>1, SafeKept DEF IInv
<1> QED BY <1>3, <1>5, <1>6 DEF IInv

LEMMA AcceptStep == IInv /\ Accept => IInv'
<1> SUFFICES ASSUME IInv, Accept PROVE IInv'
  OBVIOUS
<1>1. /\ TypeInv /\ pc = "check" /\ fileNo > 0 /\ Name \in dir
      /\ pc' \in {"open", "cleanup"}
      /\ UNCHANGED <<settings, fileNo, disk, buf, got, step, armed>>
  BY DEF IInv, TypeInv, Accept, Goto, Fail
<1>2. /\ op' = op /\ src' = src /\ args' = args /\ outOf' = outOf /\ kind' = kind /\ fileNo' = fileNo
      /\ Name' = Name /\ Out' = Out /\ ToFile' = ToFile /\ disk' = disk /\ buf' = buf /\ armed' = armed
      /\ got' = got /\ step' = step /\ UNCHANGED settings
  BY <1>1, SameFile
<1>3. dir' = dir \/ (ToFile /\ force /\ dir' = dir \ {Out})
  BY DEF Accept, ToFile
<1>4. Out \notin Inputs /\ Name \in Inputs /\ (ToFile => Out = outOf[Name])
  BY <1>1, NameFacts, NamesAssumption DEF ToFile
<1>5. Inputs \cap dir \subseteq dir' /\ dir \ {Out} \subseteq dir' /\ dir' \subseteq dir
  BY <1>3, <1>4
<1>6. TypeInv'
  BY <1>1, <1>2, <1>5 DEF TypeInv
<1>7. ToFile => buf = <<>> /\ ~armed
  BY <1>1 DEF IInv, Quiet
<1>8. KeepsInputs' /\ Present' /\ Quiet' /\ Apart' /\ Progress'
  BY <1>1, <1>2, <1>5, <1>7 DEF IInv, KeepsInputs, Present, Quiet, Apart, Progress, Busy
<1>9. NothingLost'
  <2>1. CASE dir' = dir
    BY <1>2, <2>1, SafeKept DEF IInv
  <2>2. CASE ToFile /\ force /\ dir' = dir \ {Out}
    <3>1. ASSUME NEW n \in Inputs, Lost(n) PROVE outOf[n] # Out
      BY <1>1, <1>4, <2>2, <3>1 DEF Lost, Replaceable
    <3>2. Separate
      BY <3>1 DEF Separate
    <3> QED BY <1>2, <1>5, <3>2, WritesOwn
  <2> QED BY <1>3, <2>1, <2>2
<1> QED BY <1>6, <1>8, <1>9 DEF IInv

(* Open, and an attempt that leaves an empty output behind.                 *)
LEMMA OpenStep == IInv /\ (Open \/ OpenFails) => IInv'
<1> SUFFICES ASSUME IInv, Open \/ OpenFails PROVE IInv'
  OBVIOUS
<1>1. /\ TypeInv /\ pc = "open" /\ fileNo > 0
      /\ pc' \in {"next", "arm", "stream"}
      /\ UNCHANGED <<settings, fileNo, buf, got, step, armed>>
      /\ pc' = "arm" => op # "TEST"
      /\ pc' = "stream" => op = "TEST"
  BY DEF IInv, TypeInv, Open, OpenFails, Goto, Skip
<1>2. /\ op' = op /\ src' = src /\ args' = args /\ outOf' = outOf /\ kind' = kind /\ fileNo' = fileNo
      /\ Name' = Name /\ Out' = Out /\ ToFile' = ToFile /\ buf' = buf /\ armed' = armed
      /\ got' = got /\ step' = step /\ UNCHANGED settings
  BY <1>1, SameFile
<1>3. \/ UNCHANGED <<dir, disk>> /\ (ToFile => pc' = "next")
      \/ /\ ToFile /\ Out \notin dir /\ dir' = dir \cup {Out} /\ disk' = [disk EXCEPT ![Out] = <<>>]
         /\ pc' \in {"next", "arm"} /\ (pc' = "arm" => Name \in dir)
  BY <1>1 DEF Open, OpenFails, fopen_output_safely, ToFile, Skip, Goto
<1>4. ToFile => Out = outOf[Name] /\ Out \in Outputs
  BY <1>1, NameFacts DEF ToFile
<1>5. ToFile => buf = <<>> /\ ~armed /\ got = 0
  BY <1>1 DEF IInv, Quiet, Progress
<1>6. CASE UNCHANGED <<dir, disk>> /\ (ToFile => pc' = "next")
  <2>1. TypeInv'
    BY <1>1, <1>2, <1>6 DEF TypeInv
  <2>2. KeepsInputs' /\ Present' /\ Quiet' /\ Apart' /\ Progress'
    BY <1>1, <1>2, <1>5, <1>6 DEF IInv, TypeInv, KeepsInputs, Present, Quiet, Apart, Progress, Busy, ToFile
  <2>3. NothingLost'
    BY <1>2, <1>6, SafeKept DEF IInv
  <2> QED BY <2>1, <2>2, <2>3 DEF IInv
<1>7. CASE /\ ToFile /\ Out \notin dir /\ dir' = dir \cup {Out} /\ disk' = [disk EXCEPT ![Out] = <<>>]
           /\ pc' \in {"next", "arm"} /\ (pc' = "arm" => Name \in dir)
  <2>1. /\ disk' \in [Outputs \cup {Stdout} -> Seq(Items)] /\ disk'[Out] = <<>>
        /\ \A o \in Outputs : o # Out => disk'[o] = disk[o]
    <3>1. disk \in [Outputs \cup {Stdout} -> Seq(Items)]
      BY <1>1 DEF TypeInv
    <3>2. <<>> \in Seq(Items)
      OBVIOUS
    <3> QED BY <1>4, <1>7, <3>1, <3>2
  <2>2. TypeInv'
    BY <1>1, <1>2, <1>4, <1>7, <2>1 DEF TypeInv
  <2>3. \A n \in Inputs : Lost(n) => outOf[n] # Out
    BY <1>7 DEF IInv, NothingLost, Lost
  <2>4. Separate /\ Separate'
    <3>1. Separate
      BY <2>3 DEF Separate
    <3> QED BY <1>2, <1>7, <3>1, SeparateKept
  <2>5. KeepsInputs' /\ Present' /\ Quiet' /\ Apart'
    BY <1>1, <1>2, <1>5, <1>7, <2>4 DEF IInv, KeepsInputs, Present, Quiet, Apart, Busy, ToFile
  <2>6. Progress'
    BY <1>1, <1>2, <1>5, <1>7, <2>1 DEF Progress
  <2>7. NothingLost'
    BY <1>2, <1>7, <2>1, <2>4, WritesOwn
  <2> QED BY <2>2, <2>5, <2>6, <2>7 DEF IInv
<1> QED BY <1>3, <1>6, <1>7

LEMMA TimesStep == IInv /\ applySavedTimeInfoToOutputFile => IInv'
<1> SUFFICES ASSUME IInv, applySavedTimeInfoToOutputFile PROVE IInv'
  OBVIOUS
<1>1. /\ TypeInv /\ pc = "times" /\ fileNo > 0 /\ Busy /\ ~Ended /\ ToFile
      /\ UNCHANGED <<settings, fileNo, dir, disk, buf, got, step, armed>>
  BY DEF IInv, TypeInv, KeepsInputs, Busy, Ended, ToFile, applySavedTimeInfoToOutputFile
<1>2. CASE Fail(1)
  BY <1>1, <1>2, GivesUp DEF Fail
<1>3. CASE Goto("disarm")
  <2>1. /\ op' = op /\ src' = src /\ args' = args /\ outOf' = outOf /\ kind' = kind /\ fileNo' = fileNo
        /\ Name' = Name /\ Out' = Out /\ ToFile' = ToFile /\ disk' = disk /\ buf' = buf /\ armed' = armed
        /\ got' = got /\ step' = step /\ dir' = dir /\ pc' = "disarm" /\ \A n : Whole(n)' = Whole(n)
    BY <1>1, <1>3, SameFile DEF Goto
  <2>2. Present' /\ Apart' /\ NothingLost'
    BY <1>1, StillStep
  <2>3. TypeInv' /\ KeepsInputs'
    BY <1>1, <2>1 DEF IInv, TypeInv, KeepsInputs, ToFile
  <2>4. buf = <<>> /\ (kind[Name] # "trailing" => disk[Out] = Whole(Name))
    BY <1>1 DEF IInv, Quiet, Progress
  <2>5. Quiet' /\ Progress'
    BY <2>1, <2>4 DEF Quiet, Progress
  <2> QED BY <2>2, <2>3, <2>5 DEF IInv
<1> QED BY <1>2, <1>3 DEF applySavedTimeInfoToOutputFile

------------------------------------------------------------------------------
(* The ends of the program, and what others do.                             *)
LEMMA EndStep == IInv /\ (Finish \/ cleanUpAndFail \/ Kill) => IInv'
<1> SUFFICES ASSUME IInv, Finish \/ cleanUpAndFail \/ Kill PROVE IInv'
  OBVIOUS
<1>1. /\ TypeInv /\ pc' \in {"exited", "killed"} /\ buf' = <<>> /\ ~Ended
      /\ UNCHANGED <<settings, fileNo, got, step, armed>>
  BY DEF IInv, Finish, cleanUpAndFail, Kill, Goto, Ended
<1>2. /\ op' = op /\ src' = src /\ args' = args /\ outOf' = outOf /\ kind' = kind /\ fileNo' = fileNo
      /\ Name' = Name /\ Out' = Out /\ ToFile' = ToFile /\ armed' = armed
      /\ got' = got /\ step' = step /\ UNCHANGED settings
  BY <1>1, SameFile
<1>3. disk \in [Outputs \cup {Stdout} -> Seq(Items)] /\ buf \in Seq(Items) /\ <<>> \in Seq(Items)
  BY <1>1 DEF TypeInv
<1>4. CASE Finish
  <2>1. dir' = dir /\ disk' \in {disk, [disk EXCEPT ![Stdout] = @ \o buf]}
    BY <1>4 DEF Finish
  <2>2. disk' \in [Outputs \cup {Stdout} -> Seq(Items)] /\ \A o \in Outputs : disk'[o] = disk[o]
    <3>1. disk[Stdout] \o buf \in Seq(Items)
      <4>1. disk[Stdout] \in Seq(Items)
        BY <1>3
      <4> QED BY <1>3, <4>1
    <3> QED BY <1>3, <2>1, <3>1, NamesAssumption
  <2>3. TypeInv'
    BY <1>1, <1>2, <1>3, <2>1, <2>2 DEF TypeInv
  <2>4. KeepsInputs' /\ Present' /\ Quiet' /\ Apart' /\ Progress'
    BY <1>1, <1>2, <2>1 DEF IInv, KeepsInputs, Present, Quiet, Apart, Progress, Busy, Ended
  <2>5. NothingLost'
    BY <1>1, <1>2, <2>1, <2>2, SafeKept DEF IInv, TypeInv
  <2> QED BY <2>3, <2>4, <2>5 DEF IInv
<1>5. CASE Kill
  <2>1. dir' = dir /\ disk' = disk
    BY <1>5 DEF Kill
  <2>2. TypeInv'
    BY <1>1, <1>2, <1>3, <2>1 DEF TypeInv
  <2>3. KeepsInputs' /\ Present' /\ Quiet' /\ Apart' /\ Progress'
    BY <1>1, <1>2, <2>1 DEF IInv, KeepsInputs, Present, Quiet, Apart, Progress, Busy, Ended
  <2>4. NothingLost'
    BY <1>2, <2>1, SafeKept DEF IInv
  <2> QED BY <2>2, <2>3, <2>4 DEF IInv
<1>6. CASE cleanUpAndFail
  <2>1. /\ pc = "cleanup"
        /\ dir' = dir \/ (ToFile /\ armed /\ Name \in dir /\ dir' = dir \ {Out})
        /\ disk' = disk \/ (fileNo > 0 /\ disk' = [disk EXCEPT ![Out] = @ \o buf])
    BY <1>6 DEF cleanUpAndFail, DeletesOutput, ToFile
  <2>2. dir' # dir => fileNo > 0
    BY <2>1 DEF IInv, Quiet
  <2>3. fileNo > 0 => Out \in Outputs \cup {Stdout} /\ Out \notin Inputs
    BY <1>1, NameFacts, NamesAssumption
  <2>4. /\ dir \ {Out} \subseteq dir' /\ dir' \subseteq dir /\ Inputs \cap dir \subseteq dir'
        /\ ~ToFile => dir' = dir
    BY <2>1, <2>2, <2>3
  <2>5. /\ disk' \in [Outputs \cup {Stdout} -> Seq(Items)]
        /\ \A o \in Outputs : o # Out => disk'[o] = disk[o]
        /\ buf = <<>> => disk' = disk
    <3>1. CASE disk' = disk
      BY <1>3, <3>1
    <3>2. CASE fileNo > 0 /\ disk' = [disk EXCEPT ![Out] = @ \o buf]
      <4>1. disk[Out] \in Seq(Items)
        BY <1>3, <2>3, <3>2
      <4>2. disk[Out] \o buf \in Seq(Items)
        BY <1>3, <4>1
      <4>3. disk[Out] \o <<>> = disk[Out]
        BY <4>1, ConcatEmpty
      <4> QED BY <1>3, <2>3, <3>2, <4>2, <4>3
    <3> QED BY <2>1, <3>1, <3>2
  <2>6. ToFile /\ (armed \/ buf # <<>>) => Separate
    BY <1>1 DEF IInv, Apart
  <2>7. TypeInv'
    BY <1>1, <1>2, <1>3, <2>4, <2>5 DEF TypeInv
  <2>8. KeepsInputs' /\ Present' /\ Quiet' /\ Apart' /\ Progress'
    BY <1>1, <1>2, <2>4 DEF IInv, KeepsInputs, Present, Quiet, Apart, Progress, Busy, Ended
  <2>9. NothingLost'
    <3>1. CASE ToFile => Separate
      BY <1>2, <2>4, <2>5, <3>1, WritesOwn
    <3>2. CASE ToFile /\ ~Separate
      <4>1. dir' = dir /\ disk' = disk
        BY <2>1, <2>5, <2>6, <3>2
      <4> QED BY <1>2, <4>1, SafeKept DEF IInv
    <3> QED BY <3>1, <3>2
  <2> QED BY <2>7, <2>8, <2>9 DEF IInv
<1> QED BY <1>4, <1>5, <1>6

(* A name that is not there is not the output of the present file, nor that *)
(* of an input that is gone.                                                *)
LEMMA OthersStep ==
  ASSUME IInv, NEW o \in Outputs, OtherCreates(o)
  PROVE  IInv'
<1>1. /\ TypeInv /\ o \notin dir /\ ~Ended /\ dir' = dir \cup {o} /\ disk' = [disk EXCEPT ![o] = Other]
      /\ UNCHANGED <<settings, pc, fileNo, buf, got, step, armed>>
  BY DEF IInv, OtherCreates
<1>2. /\ op' = op /\ src' = src /\ args' = args /\ outOf' = outOf /\ kind' = kind /\ fileNo' = fileNo
      /\ Name' = Name /\ Out' = Out /\ ToFile' = ToFile /\ buf' = buf /\ armed' = armed /\ pc' = pc
      /\ got' = got /\ step' = step /\ UNCHANGED settings /\ magicNumberOK' = magicNumberOK
      /\ \A n : Whole(n)' = Whole(n)
  BY <1>1, SameFile
<1>3. disk' \in [Outputs \cup {Stdout} -> Seq(Items)] /\ \A u : u # o => (u \in Outputs \cup {Stdout} => disk'[u] = disk[u])
  <2>1. Other \in Seq(Items)
    <3>1. Piece("other", "new", 1) \in Items
      BY DEF Piece, Items
    <3> QED BY <3>1 DEF Other
  <2>2. disk \in [Outputs \cup {Stdout} -> Seq(Items)]
    BY <1>1 DEF TypeInv
  <2> QED BY <1>1, <2>1, <2>2
<1>4. TypeInv'
  BY <1>1, <1>2, <1>3 DEF TypeInv
<1>5. KeepsInputs' /\ Present' /\ Quiet'
  BY <1>1, <1>2 DEF IInv, KeepsInputs, Present, Busy, Quiet
<1>6. Apart'
  <2>1. Separate => Separate'
    BY <1>1, <1>2, SeparateKept
  <2> QED BY <1>1, <1>2, <2>1 DEF IInv, Apart, Busy, Ended
<1>7. Progress'
  <2> SUFFICES ASSUME ToFile, pc \in {"check", "open"} \/ Busy PROVE Progress'
    BY <1>2 DEF Progress, Busy
  <2>1. CASE pc \in {"check", "open"}
    BY <1>2, <2>1 DEF IInv, Progress
  <2>2. CASE Busy
    <3>1. Out \in dir /\ fileNo > 0
      BY <1>1, <2>2 DEF IInv, Present, Busy, TypeInv
    <3>2. Out \in Outputs
      BY <1>1, <3>1, NameFacts DEF ToFile
    <3>3. disk'[Out] = disk[Out]
      BY <1>1, <1>3, <3>1, <3>2
    <3> QED BY <1>2, <3>3 DEF IInv, Progress
  <2> QED BY <2>1, <2>2
<1>8. NothingLost'
  <2>1. \A n \in Inputs : outOf[n] \in dir => outOf[n] \in dir' /\ disk'[outOf[n]] = disk[outOf[n]]
    BY <1>1, <1>3 DEF TypeInv
  <2> QED BY <1>1, <1>2, <2>1, SafeKept DEF IInv
<1> QED BY <1>4, <1>5, <1>6, <1>7, <1>8 DEF IInv

(* The present file can be written to, and the program may give up.         *)
LEMMA FailSteps == IInv /\ (ReadFails \/ BadData \/ Signal) => IInv'
<1> SUFFICES ASSUME IInv, ReadFails \/ BadData \/ Signal PROVE IInv'
  OBVIOUS
<1>1. /\ UNCHANGED <<settings, fileNo, dir, disk, got, step, armed>> /\ ~Ended
      /\ pc' = "cleanup" /\ buf' = buf
  BY DEF ReadFails, BadData, Signal, Fail, Ended
<1> QED BY <1>1, GivesUp


------------------------------------------------------------------------------
LEMMA InitIInv == Init => IInv
<1> SUFFICES ASSUME Init PROVE IInv
  OBVIOUS
<1>1. args \in Seq(Inputs) /\ Len(args) \in Nat
  <2>1. PICK n \in 1..ArgCount : args \in [1..n -> Inputs]
    BY DEF Init
  <2> QED BY <2>1, NamesAssumption
<1>2. disk \in [Outputs \cup {Stdout} -> Seq(Items)]
  <2>1. Piece("other", "new", 1) \in Items
    BY DEF Piece, Items
  <2>2. Other \in Seq(Items) /\ <<>> \in Seq(Items)
    BY <2>1 DEF Other
  <2> QED BY <2>2 DEF Init
<1>3. buf \in Seq(Items)
  BY DEF Init
<1>4. Inputs \subseteq dir /\ dir \subseteq Inputs \cup Outputs
  BY DEF Init
<1>5. kind \in [Inputs -> Kinds]
  BY DEF Init, Kinds
<1>6. TypeInv
  BY <1>1, <1>2, <1>3, <1>4, <1>5, NamesAssumption DEF Init, TypeInv
<1>7. KeepsInputs /\ Present /\ Quiet /\ Apart /\ Progress
  BY <1>4 DEF Init, KeepsInputs, Present, Quiet, Apart, Progress, Busy
<1>8. NothingLost
  BY <1>4 DEF NothingLost
<1> QED BY <1>6, <1>7, <1>8 DEF IInv

LEMMA StutterStep == IInv /\ UNCHANGED vars => IInv'
<1> SUFFICES ASSUME IInv, UNCHANGED vars PROVE IInv'
  OBVIOUS
<1>1. /\ op' = op /\ src' = src /\ args' = args /\ outOf' = outOf /\ kind' = kind /\ fileNo' = fileNo
      /\ Name' = Name /\ Out' = Out /\ ToFile' = ToFile /\ buf' = buf /\ armed' = armed /\ pc' = pc
      /\ got' = got /\ step' = step /\ dir' = dir /\ disk' = disk /\ magicNumberOK' = magicNumberOK
      /\ UNCHANGED settings
      /\ \A n : Whole(n)' = Whole(n)
  BY SameFile DEF vars
<1>2. TypeInv' /\ KeepsInputs' /\ Present' /\ Quiet'
  BY <1>1 DEF IInv, TypeInv, KeepsInputs, Present, Busy, Quiet
<1>3. Progress'
  BY <1>1 DEF IInv, Progress
<1>4. Apart'
  <2>1. Separate => Separate'
    BY <1>1, SeparateKept
  <2> QED BY <1>1, <2>1 DEF IInv, Apart, Busy, Ended
<1>5. NothingLost'
  BY <1>1, SafeKept DEF IInv
<1> QED BY <1>2, <1>3, <1>4, <1>5 DEF IInv

LEMMA NextIInv == IInv /\ [Next]_vars => IInv'
<1> SUFFICES ASSUME IInv, [Next]_vars PROVE IInv'
  OBVIOUS
<1>1. CASE NextFile \/ Finish
  BY <1>1, NextFileStep, EndStep
<1>2. CASE Refuse \/ Arm \/ EndOfData \/ TryCat \/ EndOfCopy \/ Return \/ Disarm \/ Test
  BY <1>2, StillActions
<1>3. CASE Accept
  BY <1>3, AcceptStep
<1>4. CASE Open \/ OpenFails
  BY <1>4, OpenStep
<1>5. CASE Deliver
  BY <1>5, WriteStep DEF Deliver
<1>6. CASE CopyRaw
  <2>1. op # "TEST"
    BY <1>6 DEF IInv, KeepsInputs, CopyRaw
  <2> QED BY <1>6, <2>1, WriteStep DEF CopyRaw
<1>7. CASE ReadFails \/ BadData \/ Signal
  BY <1>7, FailSteps
<1>8. CASE MagicCloses
  BY <1>8, MagicClosesStep
<1>9. CASE Close
  BY <1>9, CloseStep
<1>10. CASE applySavedTimeInfoToOutputFile
  BY <1>10, TimesStep
<1>11. CASE RemoveInput
  BY <1>11, RemoveInputStep
<1>12. CASE BadMagic
  BY <1>12, BadMagicStep
<1>13. CASE cleanUpAndFail \/ Kill
  BY <1>13, EndStep
<1>14. CASE \E o \in Outputs : OtherCreates(o)
  BY <1>14, OthersStep
<1>15. CASE UNCHANGED vars
  BY <1>15, StutterStep
<1> QED
  BY <1>1, <1>2, <1>3, <1>4, <1>5, <1>6, <1>7, <1>8, <1>9, <1>10, <1>11, <1>12, <1>13, <1>14, <1>15
  DEF Next, Step

(* At no moment is the data of an input in neither file, whatever call      *)
(* fails, whatever signal comes and whatever files others create: compress  *)
(* and uncompress remove the input only behind a closed and whole output.   *)
THEOREM InputsSurvive == Spec => []NothingLost
<1>1. IInv => NothingLost
  BY DEF IInv
<1> QED BY <1>1, InitIInv, NextIInv, PTL DEF Spec

------------------------------------------------------------------------------
(* OthersKept. What the program writes or deletes is a file it has made     *)
(* itself: from its creation to the end of the present file the output is   *)
(* there and holds nothing but pieces of inputs.                            *)
OwnItems == Inputs \X {"new", "raw"} \X Nat
Active == ToFile /\ ~Ended /\ (Busy \/ armed \/ buf # <<>>)

Mine ==
  /\ buf \in Seq(OwnItems) /\ (op = "TEST" => buf = <<>>)
  /\ Active => Out \in dir /\ disk[Out] \in Seq(OwnItems)

LEMMA OtherIsNotMine ==
  ASSUME NEW s \in Seq(OwnItems)
  PROVE  s # Other
<1> SUFFICES ASSUME s = Other PROVE FALSE
  OBVIOUS
<1>1. s[1] = <<"other", "new", 1>> /\ Len(s) = 1
  BY DEF Other, Piece
<1>2. s[1] \in OwnItems
  BY <1>1
<1> QED BY <1>1, <1>2, NamesAssumption DEF OwnItems

(* The output in use is not the file of another process.                    *)
LEMMA NotOthers ==
  ASSUME IInv, Mine, fileNo > 0, Active \/ src # "F2F", NEW o \in Outputs, disk[o] = Other
  PROVE  o # Out
<1>1. CASE Active
  BY <1>1, OtherIsNotMine DEF Mine
<1>2. CASE src # "F2F"
  BY <1>2, NameFacts, NamesAssumption DEF IInv
<1> QED BY <1>1, <1>2

LEMMA BufMine ==
  ASSUME Mine, op' = op, buf' \in {buf, <<>>}
  PROVE  buf' \in Seq(OwnItems) /\ (op' = "TEST" => buf' = <<>>)
<1>1. <<>> \in Seq(OwnItems)
  OBVIOUS
<1>2. buf \in Seq(OwnItems) /\ (op = "TEST" => buf = <<>>)
  BY DEF Mine
<1> QED BY <1>1, <1>2

LEMMA OwnConcat ==
  ASSUME NEW s \in Seq(OwnItems), NEW t \in Seq(OwnItems)
  PROVE  s \o t \in Seq(OwnItems)
OBVIOUS

(* Steps that write nothing and leave the output where it is.               *)
LEMMA MineStill ==
  ASSUME Mine, UNCHANGED <<settings, fileNo, disk>>, Out \in dir => Out \in dir',
         buf' \in {buf, <<>>}, Active' => Active
  PROVE  Mine'
<1>1. op' = op /\ Out' = Out /\ disk' = disk
  BY SameFile
<1>2. buf' \in Seq(OwnItems) /\ (op' = "TEST" => buf' = <<>>)
  BY <1>1, BufMine
<1>3. Active => Out \in dir /\ disk[Out] \in Seq(OwnItems)
  BY DEF Mine
<1>4. ASSUME Active' PROVE Out' \in dir' /\ disk'[Out'] \in Seq(OwnItems)
  BY <1>1, <1>3, <1>4
<1> QED BY <1>2, <1>4 DEF Mine

(* Steps after which no output is in use.                                   *)
LEMMA MineOff ==
  ASSUME Mine, op' = op, buf' \in {buf, <<>>}, ~Active'
  PROVE  Mine'
<1>1. buf' \in Seq(OwnItems) /\ (op' = "TEST" => buf' = <<>>)
  BY BufMine
<1> QED BY <1>1 DEF Mine

(* Steps that write to the output.                                          *)
LEMMA MineWrites ==
  ASSUME IInv, Mine, fileNo > 0, UNCHANGED <<settings, fileNo, dir>>, Active' => Active,
         buf' \in Seq(OwnItems), op = "TEST" => buf' = <<>>,
         disk[Out] \in Seq(OwnItems) => disk'[Out] \in Seq(OwnItems)
  PROVE  Mine'
<1>1. op' = op /\ Out' = Out /\ dir' = dir
  BY SameFile
<1>2. ASSUME Active' PROVE Out' \in dir' /\ disk'[Out'] \in Seq(OwnItems)
  BY <1>1, <1>2 DEF Mine
<1> QED BY <1>1, <1>2 DEF Mine

LEMMA fwriteMine ==
  ASSUME IInv, Mine, fileNo > 0, NEW piece \in OwnItems, fwrite(piece)
  PROVE  /\ buf' \in Seq(OwnItems)
         /\ disk[Out] \in Seq(OwnItems) => disk'[Out] \in Seq(OwnItems)
         /\ \A o \in Outputs : o # Out => disk'[o] = disk[o]
<1>1. /\ Out \in Outputs \cup {Stdout} /\ disk \in [Outputs \cup {Stdout} -> Seq(Items)]
      /\ buf \in Seq(OwnItems) /\ Append(buf, piece) \in Seq(OwnItems) /\ <<>> \in Seq(OwnItems)
  BY NameFacts DEF IInv, TypeInv, Mine
<1>2. CASE buf' = Append(buf, piece) /\ UNCHANGED disk
  BY <1>1, <1>2
<1>3. CASE disk' = [disk EXCEPT ![Out] = @ \o Append(buf, piece)] /\ buf' = <<>>
  <2>1. disk'[Out] = disk[Out] \o Append(buf, piece)
    BY <1>1, <1>3
  <2>2. disk[Out] \in Seq(OwnItems) => disk'[Out] \in Seq(OwnItems)
    BY <1>1, <2>1, OwnConcat
  <2>3. \A o \in Outputs : o # Out => disk'[o] = disk[o]
    BY <1>1, <1>3
  <2> QED BY <1>1, <1>3, <2>2, <2>3
<1>4. CASE buf' = <<>> /\ UNCHANGED disk
  BY <1>1, <1>4
<1> QED BY <1>2, <1>3, <1>4 DEF fwrite
------------------------------------------------------------------------------
LEMMA StillMine ==
  ASSUME IInv, Mine,
         \/ Refuse \/ Arm \/ EndOfData \/ TryCat \/ EndOfCopy \/ Return \/ Disarm \/ Test
         \/ ReadFails \/ BadData \/ applySavedTimeInfoToOutputFile \/ Signal
  PROVE  Mine'
<1>1. UNCHANGED <<settings, fileNo, dir, disk, buf>>
  BY DEF Refuse, Arm, EndOfData, TryCat, EndOfCopy, Return, Disarm, Test,
         ReadFails, BadData, applySavedTimeInfoToOutputFile, Signal
<1>2. ~Ended /\ (Busy' => Busy) /\ (armed' => armed \/ Busy)
  BY DEF Refuse, Arm, EndOfData, AtMagic, TryCat, EndOfCopy, Return, Disarm, Test,
         ReadFails, BadData, applySavedTimeInfoToOutputFile, Signal, Ended, Busy, Skip, Goto, Fail
<1>3. ToFile' = ToFile
  BY <1>1, SameFile
<1>4. Active' => Active
  BY <1>1, <1>2, <1>3 DEF Active
<1> QED BY <1>1, <1>4, MineStill

LEMMA RemoveInputMine ==
  ASSUME IInv, Mine, RemoveInput
  PROVE  Mine' /\ \A o \in Outputs : o \in dir => o \in dir'
<1>1. pc = "removeInput" /\ fileNo > 0 /\ src = "F2F" /\ op # "TEST"
  BY DEF RemoveInput, IInv, TypeInv, KeepsInputs
<1>2. Name \in Inputs /\ Out \in Outputs
  BY <1>1, NameFacts DEF IInv
<1>3. \A o \in Outputs : o \in dir => o \in dir'
  BY <1>2, NamesAssumption DEF RemoveInput
<1>4. Active
  BY <1>1 DEF Active, ToFile, Busy, Ended
<1>5. UNCHANGED <<settings, fileNo, disk, buf>>
  BY DEF RemoveInput
<1> QED BY <1>2, <1>3, <1>4, <1>5, MineStill

LEMMA OffMine ==
  ASSUME IInv, Mine,
         NextFile \/ Finish \/ Accept \/ OpenFails \/ BadMagic \/ cleanUpAndFail \/ Kill
  PROVE  Mine'
<1>1. UNCHANGED settings /\ buf' \in {buf, <<>>}
  BY DEF NextFile, Finish, Accept, OpenFails, BadMagic, cleanUpAndFail, Kill
<1>2. op' = op /\ ToFile' = ToFile
  BY <1>1 DEF settings, ToFile
<1>3. ASSUME ToFile PROVE ~Active'
  <2>1. CASE Finish \/ cleanUpAndFail \/ Kill
    BY <2>1 DEF Finish, cleanUpAndFail, Kill, Goto, Ended, Active
  <2>2. CASE NextFile \/ Accept \/ OpenFails \/ BadMagic
    <3>1. pc \in {"next", "check", "open", "badMagic"} /\ buf' = buf /\ (armed' = armed \/ ~armed')
          /\ pc' \in {"next", "check", "open", "cleanup"}
      BY <2>2 DEF NextFile, Accept, OpenFails, BadMagic, Skip, Goto, Fail
    <3>2. buf = <<>> /\ ~armed
      BY <1>3, <3>1 DEF IInv, Quiet
    <3> QED BY <3>1, <3>2 DEF Active, Busy
  <2> QED BY <2>1, <2>2
<1>4. ~Active'
  BY <1>2, <1>3 DEF Active
<1> QED BY <1>1, <1>2, <1>4, MineOff

LEMMA OpenMine ==
  ASSUME IInv, Mine, Open
  PROVE  Mine' /\ \A o \in Outputs : o \in dir => o \in dir' /\ disk'[o] = disk[o]
<1>1. /\ UNCHANGED <<settings, fileNo, buf, armed>> /\ pc = "open" /\ fileNo > 0
      /\ IF ToFile THEN fopen_output_safely(Out) ELSE UNCHANGED <<dir, disk>>
  BY DEF Open, IInv, TypeInv, ToFile
<1>2. op' = op /\ ToFile' = ToFile /\ Out' = Out
  BY <1>1, SameFile
<1>3. disk \in [Outputs \cup {Stdout} -> Seq(Items)] /\ Out \in Outputs \cup {Stdout}
  BY <1>1, NameFacts DEF IInv, TypeInv
<1>4. ASSUME ToFile PROVE Out' \in dir' /\ disk'[Out'] \in Seq(OwnItems)
  <2>1. dir' = dir \cup {Out} /\ disk' = [disk EXCEPT ![Out] = <<>>]
    BY <1>1, <1>4 DEF fopen_output_safely
  <2>2. disk'[Out] = <<>>
    BY <1>3, <2>1
  <2>3. <<>> \in Seq(OwnItems)
    OBVIOUS
  <2> QED BY <1>2, <2>1, <2>2, <2>3
<1>5. Mine'
  <2>1. buf' \in Seq(OwnItems) /\ (op' = "TEST" => buf' = <<>>)
    BY <1>1, <1>2, BufMine
  <2>2. Active' => ToFile
    BY <1>2 DEF Active
  <2> QED BY <1>4, <2>1, <2>2 DEF Mine
<1>6. \A o \in Outputs : o \in dir => o \in dir' /\ disk'[o] = disk[o]
  BY <1>1, <1>3 DEF fopen_output_safely
<1> QED BY <1>5, <1>6

(* Where something is written, the output is the program's own.             *)
LEMMA WritingAt ==
  ASSUME IInv, pc \in {"stream", "copy", "close"}, op # "TEST", UNCHANGED settings
  PROVE  fileNo > 0 /\ (Active \/ src # "F2F") /\ (Active' => Active)
<1>1. fileNo > 0
  BY DEF IInv, TypeInv
<1>2. CASE src = "F2F"
  BY <1>1, <1>2 DEF Active, ToFile, Busy, Ended, IInv, TypeInv
<1>3. CASE src # "F2F"
  BY <1>1, <1>3 DEF Active, ToFile, settings
<1> QED BY <1>2, <1>3

(* What a writing step does to the files: nothing to those of others.       *)
WritesMine ==
  Mine' /\ \A o \in Outputs : o \in dir /\ disk[o] = Other => o \in dir' /\ disk'[o] = Other

LEMMA PiecesMine ==
  ASSUME IInv, Mine, Deliver \/ CopyRaw
  PROVE  WritesMine
<1>1. /\ UNCHANGED <<settings, fileNo, dir>> /\ pc \in {"stream", "copy"} /\ op # "TEST"
  BY DEF Deliver, CopyRaw, IInv, KeepsInputs
<1>2. fileNo > 0 /\ (Active \/ src # "F2F") /\ (Active' => Active)
  BY <1>1, WritingAt
<1>3. Name \in Inputs /\ got + 1 \in Nat
  BY <1>2, NameFacts, NamesAssumption DEF IInv, TypeInv
<1>4. PICK piece \in OwnItems : fwrite(piece)
  BY <1>3 DEF Deliver, CopyRaw, Piece, OwnItems
<1>5. /\ buf' \in Seq(OwnItems)
      /\ disk[Out] \in Seq(OwnItems) => disk'[Out] \in Seq(OwnItems)
      /\ \A o \in Outputs : o # Out => disk'[o] = disk[o]
  BY <1>2, <1>4, fwriteMine
<1>6. Mine'
  BY <1>1, <1>2, <1>5, MineWrites
<1>7. \A o \in Outputs : o \in dir /\ disk[o] = Other => o # Out
  BY <1>2, NotOthers
<1> QED BY <1>1, <1>5, <1>6, <1>7 DEF WritesMine

LEMMA ClosingMine ==
  ASSUME IInv, Mine, Close \/ MagicCloses
  PROVE  WritesMine
<1>1. /\ UNCHANGED <<settings, fileNo, dir>> /\ pc \in {"stream", "close"} /\ op # "TEST"
  BY DEF Close, MagicCloses, AtMagic, IInv, KeepsInputs
<1>2. fileNo > 0 /\ (Active \/ src # "F2F") /\ (Active' => Active)
  BY <1>1, WritingAt
<1>3. buf' \in {buf, <<>>} /\ (disk' = disk \/ disk' = [disk EXCEPT ![Out] = @ \o buf])
  BY DEF Close, CloseStepWorks, MagicCloses
<1>4. /\ disk \in [Outputs \cup {Stdout} -> Seq(Items)] /\ Out \in Outputs \cup {Stdout}
      /\ buf \in Seq(OwnItems) /\ <<>> \in Seq(OwnItems)
  BY <1>2, NameFacts DEF IInv, TypeInv, Mine
<1>5. disk[Out] \in Seq(OwnItems) => disk'[Out] \in Seq(OwnItems)
  <2>1. disk'[Out] \in {disk[Out], disk[Out] \o buf}
    BY <1>3, <1>4
  <2> QED BY <1>4, <2>1, OwnConcat
<1>6. \A o \in Outputs : o # Out => disk'[o] = disk[o]
  BY <1>3, <1>4
<1>7. buf' \in Seq(OwnItems)
  BY <1>3, <1>4
<1>8. Mine'
  BY <1>1, <1>2, <1>5, <1>7, MineWrites
<1>9. \A o \in Outputs : o \in dir /\ disk[o] = Other => o # Out
  BY <1>2, NotOthers
<1> QED BY <1>1, <1>6, <1>8, <1>9 DEF WritesMine

LEMMA OthersMine ==
  ASSUME IInv, Mine, NEW p \in Outputs, OtherCreates(p)
  PROVE  Mine' /\ \A o \in Outputs : o \in dir => o \in dir' /\ disk'[o] = disk[o]
<1>1. /\ UNCHANGED <<settings, fileNo, pc, armed, buf>> /\ p \notin dir
      /\ dir' = dir \cup {p} /\ disk' = [disk EXCEPT ![p] = Other]
  BY DEF OtherCreates
<1>2. op' = op /\ Out' = Out /\ ToFile' = ToFile
  BY <1>1, SameFile
<1>3. disk \in [Outputs \cup {Stdout} -> Seq(Items)]
  BY DEF IInv, TypeInv
<1>4. buf' \in Seq(OwnItems) /\ (op' = "TEST" => buf' = <<>>)
  BY <1>1, <1>2, BufMine
<1>5. Active' => Active
  BY <1>1, <1>2 DEF Active, Busy, Ended
<1>6. ASSUME Active PROVE Out' \in dir' /\ disk'[Out'] \in Seq(OwnItems)
  <2>1. Out \in dir /\ disk[Out] \in Seq(OwnItems)
    BY <1>6 DEF Mine
  <2>2. disk'[Out] = disk[Out]
    BY <1>1, <1>3, <2>1
  <2> QED BY <1>1, <1>2, <2>1, <2>2
<1>7. \A o \in Outputs : o \in dir => o \in dir' /\ disk'[o] = disk[o]
  BY <1>1, <1>3
<1> QED BY <1>4, <1>5, <1>6, <1>7 DEF Mine

------------------------------------------------------------------------------
LEMMA InitMine == Init => Mine
<1> SUFFICES ASSUME Init PROVE Mine
  OBVIOUS
<1>1. buf = <<>> /\ pc = "next" /\ ~armed
  BY DEF Init
<1>2. buf \in Seq(OwnItems) /\ ~Active
  BY <1>1 DEF Active, Busy
<1> QED BY <1>1, <1>2 DEF Mine

LEMMA NextMine == IInv /\ Mine /\ [Next]_vars => Mine'
<1> SUFFICES ASSUME IInv, Mine, [Next]_vars PROVE Mine'
  OBVIOUS
<1>1. CASE \/ Refuse \/ Arm \/ EndOfData \/ TryCat \/ EndOfCopy \/ Return \/ Disarm \/ Test
           \/ ReadFails \/ BadData \/ applySavedTimeInfoToOutputFile \/ Signal
  BY <1>1, StillMine
<1>2. CASE NextFile \/ Finish \/ Accept \/ OpenFails \/ BadMagic \/ cleanUpAndFail \/ Kill
  BY <1>2, OffMine
<1>3. CASE RemoveInput
  BY <1>3, RemoveInputMine
<1>4. CASE Open
  BY <1>4, OpenMine
<1>5. CASE Deliver \/ CopyRaw
  BY <1>5, PiecesMine DEF WritesMine
<1>6. CASE Close \/ MagicCloses
  BY <1>6, ClosingMine DEF WritesMine
<1>7. CASE \E o \in Outputs : OtherCreates(o)
  BY <1>7, OthersMine
<1>8. CASE UNCHANGED vars
  <2>1. UNCHANGED <<settings, fileNo, dir, disk, buf, pc, armed>>
    BY <1>8 DEF vars
  <2>2. Active' => Active
    BY <2>1, SameFile DEF Active, Busy, Ended
  <2> QED BY <2>1, <2>2, MineStill
<1> QED
  BY <1>1, <1>2, <1>3, <1>4, <1>5, <1>6, <1>7, <1>8 DEF Next, Step

(* cleanUpAndFail deletes, or has exit write, only what is its own.         *)
LEMMA CleanUpKeeps ==
  ASSUME IInv, Mine, cleanUpAndFail, NEW o \in Outputs, o \in dir, disk[o] = Other
  PROVE  o \in dir' /\ disk'[o] = Other
<1>1. disk \in [Outputs \cup {Stdout} -> Seq(Items)] /\ pc = "cleanup" /\ ~Ended
  BY DEF IInv, TypeInv, cleanUpAndFail, Ended
<1>2. o \in dir'
  <2>1. CASE DeletesOutput
    <3>1. Active /\ fileNo > 0
      BY <1>1, <2>1 DEF DeletesOutput, Active, ToFile, IInv, Quiet
    <3>2. o # Out
      BY <3>1, NotOthers
    <3> QED BY <2>1, <3>2 DEF cleanUpAndFail
  <2>2. CASE ~DeletesOutput
    BY <2>2 DEF cleanUpAndFail
  <2> QED BY <2>1, <2>2
<1>3. disk'[o] = Other
  <2>1. CASE disk' = disk
    BY <2>1
  <2>2. CASE fileNo > 0 /\ disk' = [disk EXCEPT ![Out] = @ \o buf] /\ buf = <<>>
    <3>1. disk[o] \o <<>> = disk[o]
      BY <1>1, ConcatEmpty
    <3> QED BY <1>1, <2>2, <3>1
  <2>3. CASE fileNo > 0 /\ disk' = [disk EXCEPT ![Out] = @ \o buf] /\ buf # <<>>
    <3>1. Active \/ src # "F2F"
      BY <1>1, <2>3 DEF Mine, Active, ToFile
    <3>2. o # Out
      BY <2>3, <3>1, NotOthers
    <3> QED BY <1>1, <2>3, <3>2
  <2> QED BY <2>1, <2>2, <2>3 DEF cleanUpAndFail
<1> QED BY <1>2, <1>3

LEMMA StepKeepsOthers ==
  ASSUME IInv, Mine, [Next]_vars, NEW o \in Outputs,
         o \in dir, disk[o] = Other, ~(force /\ pc = "check")
  PROVE  o \in dir' /\ disk'[o] = Other
<1>0. disk \in [Outputs \cup {Stdout} -> Seq(Items)] /\ o # Stdout
  BY NamesAssumption DEF IInv, TypeInv
<1>1. CASE \/ Refuse \/ Arm \/ EndOfData \/ TryCat \/ EndOfCopy \/ Return \/ Disarm \/ Test
           \/ ReadFails \/ BadData \/ applySavedTimeInfoToOutputFile \/ Signal \/ NextFile \/ Kill
  BY <1>1 DEF Refuse, Arm, EndOfData, TryCat, EndOfCopy, Return, Disarm, Test,
       ReadFails, BadData, applySavedTimeInfoToOutputFile, Signal, NextFile, Kill
<1>2. CASE Finish
  BY <1>0, <1>2 DEF Finish
<1>3. CASE Accept
  BY <1>3 DEF Accept
<1>4. CASE OpenFails
  BY <1>0, <1>4 DEF OpenFails
<1>5. CASE Open
  BY <1>5, OpenMine
<1>6. CASE Deliver \/ CopyRaw
  BY <1>6, PiecesMine DEF WritesMine
<1>7. CASE Close \/ MagicCloses
  BY <1>7, ClosingMine DEF WritesMine
<1>8. CASE RemoveInput
  BY <1>8, RemoveInputMine DEF RemoveInput
<1>9. CASE BadMagic
  <2>1. UNCHANGED disk /\ (dir' = dir \/ (src = "F2F" /\ dir' = dir \ {Out}))
    BY <1>9 DEF BadMagic
  <2>2. fileNo > 0 /\ (Active \/ src # "F2F")
    BY <1>9 DEF BadMagic, Active, ToFile, Busy, Ended, IInv, TypeInv, KeepsInputs
  <2>3. o # Out
    BY <2>2, NotOthers
  <2> QED BY <2>1, <2>3
<1>10. CASE cleanUpAndFail
  BY <1>10, CleanUpKeeps
<1>11. CASE \E p \in Outputs : OtherCreates(p)
  BY <1>11, OthersMine
<1>12. CASE UNCHANGED vars
  BY <1>12 DEF vars
<1> QED
  BY <1>1, <1>2, <1>3, <1>4, <1>5, <1>6, <1>7, <1>8, <1>9, <1>10, <1>11, <1>12 DEF Next, Step

(* A file that another process has made survives every step of the program *)
(* but the removal that -f asks for: O_EXCL keeps the output apart from it, *)
(* and what is written or deleted afterwards is that output.                *)
THEOREM OthersSurvive == Spec => OthersKept
<1>1. IInv /\ Mine /\ [Next]_vars =>
        [\A o \in Outputs :
           o \in dir /\ disk[o] = Other /\ ~(force /\ pc = "check")
             => o \in dir' /\ disk'[o] = Other]_vars
  BY StepKeepsOthers
<1> QED BY <1>1, InitIInv, NextIInv, InitMine, NextMine, PTL DEF Spec, OthersKept

------------------------------------------------------------------------------
(* StatusTells. What the exit status promises is followed from file to     *)
(* file: as long as it is 0, the files dealt with so far are as they       *)
(* should be. Where the inputs are removed NothingLost says the rest;      *)
(* where they are kept, Owing keeps their outputs out of the way of what   *)
(* is written next, and StdoutTells follows the one output of SM_F2O.      *)

(* The names on the command line that have been dealt with. *)
Past    == IF pc \in {"next", "exited"} THEN fileNo ELSE fileNo - 1
Dealt(n) == \E j \in 1..Past : args[j] = n

Codes ==
  /\ exitValue \in Nat /\ failCode \in Nat /\ (pc = "cleanup" => failCode >= 1)
  /\ pc = "exited" => exitValue >= 1 \/ fileNo = Len(args)

TestsTell ==
  op = "TEST" /\ exitValue = 0 =>
    /\ ~testFailsExist => \A j \in 1..Past : kind[args[j]] \in {"good", "trailing"}
    /\ pc = "exited" => ~testFailsExist

InputsKept ==
  ToFile /\ exitValue = 0 =>
    /\ keep => Inputs \subseteq dir /\ pc # "removeInput"
    /\ ~keep => \A j \in 1..Past : args[j] \notin dir

Owed(n) ==
  /\ ToFile /\ keep /\ exitValue = 0 /\ Dealt(n)
  /\ kind[n] # "trailing" /\ ~Replaceable(n)
  /\ pc \notin {"next", "exited"} => n # Name

Owing ==
  \A n \in Inputs : Owed(n) =>
    /\ outOf[n] \in dir /\ disk[outOf[n]] = Whole(n)
    /\ ~Ended /\ (Busy \/ armed \/ buf # <<>>) => outOf[n] # Out

PlainOutput == src = "F2O" /\ op # "TEST" /\ \A j \in 1..Len(args) : kind[args[j]] # "trailing"
Laid(k) == FlattenSeq([j \in 1..k |-> Whole(args[j])])
Waits(l) == disk[Stdout] \o buf = l
Stands(l) == disk[Stdout] = l /\ buf = <<>>

StdoutTells ==
  PlainOutput /\ exitValue = 0 =>
    /\ pc \in {"next", "exited"} => Stands(Laid(fileNo))
    /\ pc \in {"check", "open", "arm"} => Stands(Laid(fileNo - 1)) /\ got = 0
    /\ pc = "stream" => Waits(Laid(fileNo - 1) \o IF kind[Name] = "notbz" THEN <<>> ELSE Data(Name, "new", got))
    /\ pc = "copy" => kind[Name] = "notbz" /\ Waits(Laid(fileNo - 1) \o Data(Name, "raw", got))
    /\ pc = "close" => /\ step \in 1..2 /\ Waits(Laid(fileNo))
                       /\ op = "Z" /\ step = 2 => buf = <<>>
    /\ pc = "return" /\ magicNumberOK => Stands(Laid(fileNo))

StatusInv == Codes /\ TestsTell /\ InputsKept /\ Owing /\ StdoutTells

------------------------------------------------------------------------------
LEMMA CodesStep == IInv /\ Codes /\ [Next]_vars => Codes'
<1> SUFFICES ASSUME IInv, Codes, [Next]_vars PROVE Codes'
  OBVIOUS
<1>0. exitValue \in Nat /\ failCode \in Nat /\ fileNo \in Nat
  BY DEF Codes, IInv, TypeInv
<1>1. CASE NextFile \/ Accept \/ Open \/ Arm \/ ReadFails \/ EndOfData \/ BadData \/ MagicCloses
  BY <1>0, <1>1 DEF NextFile, Accept, Open, Arm, ReadFails, EndOfData, BadData, MagicCloses,
       Goto, Fail, results, Codes
<1>2. CASE TryCat \/ EndOfCopy \/ applySavedTimeInfoToOutputFile \/ Disarm \/ RemoveInput \/ Test \/ Signal \/ Kill
  BY <1>0, <1>2 DEF TryCat, EndOfCopy, applySavedTimeInfoToOutputFile, Disarm, RemoveInput, Test,
       Signal, Kill, Goto, Fail, results, Codes
<1>3. CASE Refuse \/ OpenFails \/ BadMagic
  BY <1>0, <1>3 DEF Refuse, OpenFails, BadMagic, Skip, setExit, Goto, Fail, results, Codes
<1>4. CASE Return
  BY <1>0, <1>4 DEF Return, Goto, Codes
<1>5. CASE Deliver \/ CopyRaw
  <2>1. /\ UNCHANGED results /\ pc \in {"stream", "copy"}
        /\ (pc' = pc /\ failCode' = failCode) \/ (pc' = "cleanup" /\ failCode' = 1)
    BY <1>5 DEF Deliver, CopyRaw, fwrite, Fail
  <2> QED BY <1>0, <2>1 DEF results, Codes
<1>6. CASE Close
  BY <1>0, <1>6 DEF Close, Goto, Fail, results, Codes
<1>7. CASE Finish
  <2>1. exitValue' \in Nat /\ failCode' = failCode /\ pc' = "exited" /\ fileNo' = fileNo /\ args' = args
    BY <1>0, <1>7 DEF Finish, setExit, Goto, settings
  <2> QED BY <1>0, <1>7, <2>1 DEF Finish, Codes
<1>8. CASE cleanUpAndFail
  <2>1. failCode >= 1 /\ failCode' = failCode
    BY <1>8 DEF cleanUpAndFail, Goto, Codes
  <2>2. CASE pc' = "killed" /\ exitValue' = exitValue
    BY <1>0, <2>1, <2>2 DEF Codes
  <2>3. CASE pc' = "exited" /\ setExit(failCode)
    <3>1. exitValue' \in Nat /\ exitValue' >= 1
      BY <1>0, <2>1, <2>3 DEF setExit
    <3> QED BY <1>0, <2>1, <2>3, <3>1 DEF Codes
  <2> QED BY <1>8, <2>2, <2>3 DEF cleanUpAndFail, Goto
<1>9. CASE \E o \in Outputs : OtherCreates(o)
  BY <1>9 DEF OtherCreates, results, settings, Codes
<1>10. CASE UNCHANGED vars
  BY <1>10 DEF vars, results, settings, Codes
<1> QED
  BY <1>1, <1>2, <1>3, <1>4, <1>5, <1>6, <1>7, <1>8, <1>9, <1>10 DEF Next, Step

(* The steps that end the work on a file and leave the exit status 0. *)
Completes ==
  /\ Test \/ Disarm \/ RemoveInput \/ Return
  /\ pc' = "next" /\ pc \notin {"next", "exited"} /\ fileNo > 0 /\ fileNo' = fileNo

(* While the exit status stays 0 a name is dealt with by such a step only. *)
LEMMA DealtGrows ==
  ASSUME IInv, Codes, [Next]_vars, exitValue' = 0
  PROVE  /\ exitValue = 0 /\ UNCHANGED settings
         /\ Past' <= Past \/ (Completes /\ Past = fileNo - 1 /\ Past' = fileNo)
         /\ pc \notin {"next", "exited"} /\ pc' \in {"next", "exited"} => Completes
<1>0. exitValue \in Nat /\ fileNo \in Nat
  BY DEF Codes, IInv, TypeInv
<1>1. CASE \/ Accept \/ Open \/ Arm \/ ReadFails \/ EndOfData \/ BadData \/ MagicCloses \/ TryCat
           \/ EndOfCopy \/ applySavedTimeInfoToOutputFile \/ Deliver \/ CopyRaw \/ Close
  <2>1. /\ UNCHANGED <<settings, fileNo, results>>
        /\ pc \notin {"next", "exited"} /\ pc' \notin {"next", "exited"}
    BY <1>1 DEF Accept, Open, Arm, ReadFails, EndOfData, BadData, MagicCloses, AtMagic, TryCat,
       EndOfCopy, applySavedTimeInfoToOutputFile, Deliver, CopyRaw, Close, fwrite, Goto, Fail
  <2> QED BY <1>0, <2>1 DEF Past, results
<1>2. CASE Signal \/ Kill
  BY <1>0, <1>2 DEF Signal, Kill, Ended, Fail, Goto, Past, results
<1>3. CASE NextFile
  BY <1>0, <1>3 DEF NextFile, Goto, Past, results
<1>4. CASE Refuse \/ OpenFails
  BY <1>0, <1>4 DEF Refuse, OpenFails, Skip, setExit
<1>5. CASE BadMagic
  <2>1. UNCHANGED <<settings, fileNo, exitValue>> /\ pc = "badMagic" /\ pc' = "cleanup"
    BY <1>0, <1>5 DEF BadMagic, setExit, Fail
  <2> QED BY <1>0, <2>1 DEF Past
<1>6. CASE Test \/ Disarm \/ RemoveInput \/ Return
  <2>1. /\ UNCHANGED <<settings, fileNo, exitValue>> /\ pc \notin {"next", "exited"} /\ fileNo > 0
        /\ pc' # "exited"
    BY <1>6 DEF Test, Disarm, RemoveInput, Return, Goto, Fail, results, IInv, TypeInv
  <2>2. pc' = "next" => Completes
    BY <1>6, <2>1 DEF Completes
  <2> QED BY <1>0, <2>1, <2>2 DEF Past
<1>7. CASE Finish
  BY <1>0, <1>7 DEF Finish, setExit, Goto, Past
<1>8. CASE cleanUpAndFail
  <2>1. UNCHANGED <<settings, fileNo, exitValue>> /\ pc = "cleanup" /\ pc' = "killed"
    BY <1>0, <1>8 DEF cleanUpAndFail, setExit, Goto, Codes
  <2> QED BY <1>0, <2>1 DEF Past
<1>9. CASE \E o \in Outputs : OtherCreates(o)
  BY <1>0, <1>9 DEF OtherCreates, results, Past
<1>10. CASE UNCHANGED vars
  BY <1>0, <1>10 DEF vars, results, Past
<1> QED
  BY <1>1, <1>2, <1>3, <1>4, <1>5, <1>6, <1>7, <1>8, <1>9, <1>10 DEF Next, Step

LEMMA DealtBefore ==
  ASSUME IInv, Codes, [Next]_vars, exitValue' = 0, NEW j \in 1..Past'
  PROVE  /\ j \in 1..Len(args) /\ args' = args /\ args[j] \in Inputs
         /\ j \in 1..Past \/ (Completes /\ j = fileNo /\ args[j] = Name)
<1>1. /\ UNCHANGED settings
      /\ Past' <= Past \/ (Completes /\ Past = fileNo - 1 /\ Past' = fileNo)
  BY DealtGrows
<1>2. /\ fileNo \in 0..Len(args) /\ args \in Seq(Inputs) /\ args' = args
      /\ Past \in Int /\ Past <= Len(args)
  BY <1>1 DEF IInv, TypeInv, settings, Past
<1>6. Past' \in Int /\ Past' <= Len(args)
  <2>1. TypeInv'
    BY NextIInv DEF IInv
  <2> QED BY <1>2, <2>1 DEF TypeInv, Past
<1>3. j \in 1..Len(args) /\ args[j] \in Inputs
  BY <1>2, <1>6
<1>4. j \in 1..Past \/ (Completes /\ j = fileNo)
  BY <1>1, <1>2, <1>6
<1> QED BY <1>2, <1>3, <1>4 DEF Name

------------------------------------------------------------------------------
LEMMA TestsStep == IInv /\ Codes /\ TestsTell /\ [Next]_vars => TestsTell'
<1> SUFFICES ASSUME IInv, Codes, TestsTell, [Next]_vars, (op = "TEST")', exitValue' = 0
             PROVE  /\ ~testFailsExist' => \A j \in 1..Past' : kind'[args'[j]] \in {"good", "trailing"}
                    /\ pc' = "exited" => ~testFailsExist'
  BY DEF TestsTell
<1>1. exitValue = 0 /\ op = "TEST" /\ kind' = kind /\ args' = args /\ exitValue \in Nat
  BY DealtGrows DEF settings, Codes
<1>2. pc \in {"next", "check", "open", "stream", "cleanup", "exited", "killed"}
  BY <1>1 DEF IInv, KeepsInputs
<1>3. ~testFailsExist' => ~testFailsExist
  <2>1. CASE Test
    BY <2>1 DEF Test
  <2>2. CASE ~Test
    <3>1. testFailsExist' = testFailsExist
      BY <1>1, <1>2, <2>2 DEF Next, Step, NextFile, Finish, Refuse, Accept, OpenFails, Open, Arm,
       Deliver, ReadFails, EndOfData, BadData, MagicCloses, AtMagic, TryCat, CopyRaw, EndOfCopy,
       Close, Return, applySavedTimeInfoToOutputFile, Disarm, RemoveInput, BadMagic,
       cleanUpAndFail, Signal, Kill, OtherCreates, Skip, results, vars
    <3> QED BY <3>1
  <2> QED BY <2>1, <2>2
<1>4. ASSUME ~testFailsExist', NEW j \in 1..Past'
      PROVE  kind[args[j]] \in {"good", "trailing"}
  <2>1. CASE j \in 1..Past
    BY <1>1, <1>3, <1>4, <2>1 DEF TestsTell
  <2>2. CASE Completes /\ args[j] = Name
    <3>1. Test
      BY <1>2, <2>2 DEF Completes, Disarm, RemoveInput, Return
    <3>2. kind[Name] \notin {"notbz", "corrupt", "short"}
      BY <1>4, <3>1 DEF Test, testStream
    <3>3. kind[Name] \in Kinds
      BY <2>2, DealtBefore DEF IInv, TypeInv
    <3> QED BY <2>2, <3>2, <3>3 DEF Kinds
  <2> QED BY <2>1, <2>2, DealtBefore
<1>5. ASSUME pc' = "exited" PROVE ~testFailsExist'
  <2>1. CASE pc = "exited"
    <3>1. UNCHANGED vars
      BY <2>1 DEF Next, Step, NextFile, Finish, Refuse, Accept, OpenFails, Open, Arm,
       Deliver, ReadFails, EndOfData, BadData, MagicCloses, AtMagic, TryCat, CopyRaw, EndOfCopy,
       Close, Return, applySavedTimeInfoToOutputFile, Disarm, RemoveInput, BadMagic, Test,
       cleanUpAndFail, Signal, Kill, OtherCreates, Ended
    <3> QED BY <1>1, <2>1, <3>1 DEF vars, results, TestsTell
  <2>2. CASE pc # "exited"
    <3>1. pc = "next"
      <4>1. pc \in {"next", "exited"}
        BY <1>5, DealtGrows DEF Completes
      <4> QED BY <2>2, <4>1
    <3>2. Finish
      BY <1>5, <3>1 DEF Next, Step, NextFile, Refuse, Accept, OpenFails, Open, Arm,
       Deliver, ReadFails, EndOfData, BadData, MagicCloses, AtMagic, TryCat, CopyRaw, EndOfCopy,
       Close, Return, applySavedTimeInfoToOutputFile, Disarm, RemoveInput, BadMagic, Test,
       cleanUpAndFail, Signal, Kill, OtherCreates, Goto, Fail, vars
    <3> QED BY <1>1, <3>2 DEF Finish, setExit
  <2> QED BY <2>1, <2>2
<1> QED BY <1>1, <1>4, <1>5

------------------------------------------------------------------------------
(* What a step may do to the names. *)
LEMMA DirStep ==
  ASSUME IInv, [Next]_vars
  PROVE  /\ dir' \subseteq dir \cup Outputs
         /\ pc # "removeInput" => Inputs \cap dir \subseteq dir'
         /\ pc = "removeInput" => dir \ {Name} \subseteq dir'
<1>0. /\ pc \in {"check", "open", "badMagic", "removeInput"} => fileNo > 0 /\ (src = "F2F" => Out \in Outputs)
      /\ pc = "cleanup" /\ DeletesOutput => Out \in Outputs
      /\ pc = "removeInput" => Name \in Inputs
      /\ Inputs \cap Outputs = {}
  <2>1. pc \in {"check", "open", "badMagic", "removeInput"} => fileNo > 0
    BY DEF IInv, TypeInv
  <2>2. pc = "cleanup" /\ DeletesOutput => fileNo > 0 /\ src = "F2F"
    BY DEF IInv, Quiet, DeletesOutput, ToFile
  <2> QED BY <2>1, <2>2, NameFacts, NamesAssumption DEF IInv
<1>1. CASE \/ NextFile \/ Finish \/ Refuse \/ Arm \/ Deliver \/ ReadFails \/ EndOfData \/ BadData
           \/ MagicCloses \/ TryCat \/ CopyRaw \/ EndOfCopy \/ Close \/ Return
           \/ applySavedTimeInfoToOutputFile \/ Disarm \/ Test \/ Signal \/ Kill
  <2>1. dir' = dir
    BY <1>1 DEF NextFile, Finish, Refuse, Arm, Deliver, ReadFails, EndOfData, BadData,
       MagicCloses, TryCat, CopyRaw, EndOfCopy, Close, Return,
       applySavedTimeInfoToOutputFile, Disarm, Test, Signal, Kill
  <2> QED BY <2>1
<1>2. CASE Accept
  BY <1>0, <1>2 DEF Accept
<1>3. CASE OpenFails \/ Open
  BY <1>0, <1>3 DEF OpenFails, Open, fopen_output_safely
<1>4. CASE RemoveInput
  BY <1>0, <1>4 DEF RemoveInput
<1>5. CASE BadMagic
  BY <1>0, <1>5 DEF BadMagic
<1>6. CASE cleanUpAndFail
  BY <1>0, <1>6 DEF cleanUpAndFail
<1>7. CASE \E o \in Outputs : OtherCreates(o)
  BY <1>7 DEF OtherCreates
<1>8. CASE UNCHANGED vars
  BY <1>8 DEF vars
<1> QED BY <1>1, <1>2, <1>3, <1>4, <1>5, <1>6, <1>7, <1>8 DEF Next, Step

LEMMA InputsKeptStep == IInv /\ Codes /\ InputsKept /\ [Next]_vars => InputsKept'
<1> SUFFICES ASSUME IInv, Codes, InputsKept, [Next]_vars, ToFile', exitValue' = 0
             PROVE  /\ keep' => Inputs \subseteq dir' /\ pc' # "removeInput"
                    /\ ~keep' => \A j \in 1..Past' : args'[j] \notin dir'
  BY DEF InputsKept
<1>1. exitValue = 0 /\ ToFile /\ keep' = keep /\ UNCHANGED settings
  BY DealtGrows DEF settings, ToFile
<1>2. ASSUME keep PROVE Inputs \subseteq dir' /\ pc' # "removeInput"
  <2>1. Inputs \subseteq dir /\ pc # "removeInput"
    BY <1>1, <1>2 DEF InputsKept
  <2>2. Inputs \subseteq dir'
    BY <2>1, DirStep
  <2>3. pc' # "removeInput"
    BY <1>2, <2>1 DEF Next, Step, NextFile, Finish, Refuse, Accept, OpenFails, Open, Arm,
       Deliver, ReadFails, EndOfData, BadData, MagicCloses, AtMagic, TryCat, CopyRaw, EndOfCopy,
       Close, Return, applySavedTimeInfoToOutputFile, Disarm, RemoveInput, BadMagic, Test,
       cleanUpAndFail, Signal, Kill, OtherCreates, fwrite, Skip, Goto, Fail, vars
  <2> QED BY <2>2, <2>3
<1>3. ASSUME ~keep, NEW j \in 1..Past' PROVE args'[j] \notin dir'
  <2>1. args' = args /\ args[j] \in Inputs
    BY DealtBefore
  <2>2. CASE j \in 1..Past
    <3>1. args[j] \notin dir
      BY <1>1, <1>3, <2>2 DEF InputsKept
    <3> QED BY <2>1, <3>1, DirStep, NamesAssumption
  <2>3. CASE Completes /\ args[j] = Name
    <3>1. RemoveInput /\ pc' = "next"
      BY <1>1, <1>3, <2>3 DEF Completes, Test, Disarm, Return, Goto, ToFile
    <3>2. dir' = dir \ {Name}
      BY <3>1 DEF RemoveInput, Fail
    <3> QED BY <2>1, <2>3, <3>2
  <2> QED BY <2>2, <2>3, DealtBefore
<1> QED BY <1>1, <1>2, <1>3

------------------------------------------------------------------------------
(* The outputs of inputs that are kept. *)

(* A file that is owed has been owed before, or is the one just completed.  *)
LEMMA OwedBefore ==
  ASSUME IInv, Codes, [Next]_vars, NEW n \in Inputs, Owed(n)'
  PROVE  /\ UNCHANGED settings /\ ToFile /\ keep /\ exitValue = 0 /\ exitValue' = 0
         /\ kind[n] # "trailing" /\ ~Replaceable(n)
         /\ \/ Owed(n) /\ (fileNo' = fileNo /\ pc' \notin {"next", "exited"} => n # Name)
            \/ Completes /\ n = Name
<1>1. /\ exitValue' = 0 /\ exitValue = 0 /\ UNCHANGED settings
      /\ ToFile' /\ keep' /\ Dealt(n)' /\ (kind[n] # "trailing")' /\ ~Replaceable(n)'
      /\ pc' \notin {"next", "exited"} => n # Name'
  BY DealtGrows DEF Owed
<1>2. ToFile /\ keep /\ kind[n] # "trailing" /\ ~Replaceable(n)
  BY <1>1 DEF settings, ToFile, Replaceable
<1>3. PICK j \in 1..Past' : args'[j] = n
  BY <1>1 DEF Dealt
<1>4. args' = args /\ (j \in 1..Past \/ (Completes /\ args[j] = Name))
  BY <1>1, DealtBefore
<1>5. CASE Completes /\ n = Name
  BY <1>1, <1>2, <1>5
<1>6. CASE j \in 1..Past /\ ~(Completes /\ n = Name)
  <2>1. Dealt(n)
    BY <1>3, <1>4, <1>6 DEF Dealt
  <2>2. fileNo' = fileNo /\ pc' \notin {"next", "exited"} => n # Name
    BY <1>1 DEF Name, settings
  <2>3. pc \notin {"next", "exited"} => n # Name
    <3> SUFFICES ASSUME pc \notin {"next", "exited"}, n = Name PROVE FALSE
      OBVIOUS
    <3>1. pc' \notin {"next", "exited"}
      BY <1>1, <1>6, DealtGrows
    <3>2. fileNo' = fileNo
      BY <3>1 DEF Next, Step, NextFile, Finish, Refuse, Accept, OpenFails, Open, Arm,
       Deliver, ReadFails, EndOfData, BadData, MagicCloses, TryCat, CopyRaw, EndOfCopy,
       Close, Return, applySavedTimeInfoToOutputFile, Disarm, RemoveInput, BadMagic, Test,
       cleanUpAndFail, Signal, Kill, OtherCreates, vars
    <3> QED BY <2>2, <3>1, <3>2
  <2> QED BY <1>1, <1>2, <2>1, <2>2, <2>3 DEF Owed
<1> QED BY <1>3, <1>4, <1>5, <1>6

(* The output of the file just completed. *)
LEMMA OwedCompleted ==
  ASSUME IInv, InputsKept, Completes, ToFile, keep, exitValue = 0, kind[Name] # "trailing"
  PROVE  /\ outOf' = outOf
         /\ outOf[Name] \in dir' /\ disk'[outOf[Name]] = Whole(Name)
         /\ ~(Busy' \/ armed' \/ buf' # <<>>)
<1>1. pc # "removeInput"
  BY DEF InputsKept
<1>2. Disarm
  BY <1>1 DEF Completes, Test, RemoveInput, Return, Goto, ToFile
<1>3. /\ pc = "disarm" /\ UNCHANGED <<settings, fileNo, dir, disk, buf>> /\ ~armed' /\ pc' = "next"
      /\ fileNo > 0
  BY <1>2 DEF Disarm, Completes
<1>4. /\ Out \in dir /\ disk[Out] = Whole(Name) /\ buf = <<>> /\ Out = outOf[Name]
  BY <1>3 DEF IInv, Present, Progress, Quiet, Busy, ToFile, Out
<1>5. outOf' = outOf
  BY <1>3 DEF settings
<1> QED BY <1>3, <1>4, <1>5 DEF Busy

LEMMA OwedKept ==
  ASSUME IInv, Codes, InputsKept, Owing, [Next]_vars, NEW n \in Inputs, Owed(n), ToFile, keep,
         UNCHANGED settings, exitValue = 0, exitValue' = 0, ~Replaceable(n),
         fileNo' = fileNo /\ pc' \notin {"next", "exited"} => n # Name
  PROVE  /\ outOf[n] \in dir' /\ disk'[outOf[n]] = disk[outOf[n]]
         /\ ~Ended' /\ (Busy' \/ armed' \/ buf' # <<>>) => outOf[n] # Out'
<1> DEFINE o == outOf[n]
<1>1. /\ o \in Outputs /\ o \in dir /\ o # Stdout /\ o \notin Inputs
      /\ ~Ended /\ (Busy \/ armed \/ buf # <<>>) => o # Out
      /\ disk \in [Outputs \cup {Stdout} -> Seq(Items)] /\ src = "F2F" /\ op # "TEST"
  BY NamesAssumption DEF Owing, IInv, TypeInv, ToFile
<1>2. pc # "removeInput"
  BY DEF InputsKept
<1>3. /\ pc \in {"next", "check", "open", "arm", "return", "times", "disarm", "removeInput", "badMagic"}
           => buf = <<>>
      /\ pc \in {"next", "check", "open", "removeInput", "badMagic"} => ~armed
  BY DEF IInv, Quiet
<1>4. fileNo' = fileNo => Out' = Out
  BY DEF settings, Out, Name
<1> HIDE DEF o
<1>5. CASE NextFile
  BY <1>1, <1>3, <1>5 DEF NextFile, Goto, Busy, o
<1>6. CASE Finish
  <2>1. /\ disk' = disk \/ disk' = [disk EXCEPT ![Stdout] = @ \o buf]
        /\ dir' = dir /\ pc' = "exited"
    BY <1>6 DEF Finish, Goto
  <2>2. disk'[o] = disk[o]
    BY <1>1, <2>1
  <2> QED BY <1>1, <2>1, <2>2 DEF Ended, o
<1>7. CASE Refuse \/ OpenFails
  BY <1>7 DEF Refuse, OpenFails, Skip, setExit
<1>8. CASE Accept
  <2>1. /\ fileNo' = fileNo /\ disk' = disk /\ buf' = buf /\ armed' = armed /\ pc = "check"
        /\ pc' \in {"open", "cleanup"} /\ (dir' = dir \/ (force /\ dir' = dir \ {Out}))
    BY <1>8 DEF Accept, Goto, Fail
  <2>2. n # Name /\ Name \in Inputs /\ Out = outOf[Name]
    BY <1>1, <2>1, NameFacts DEF IInv, TypeInv
  <2>3. force => o # Out
    BY <2>2 DEF Replaceable, o
  <2> QED BY <1>1, <1>3, <2>1, <2>3 DEF Busy, o
<1>9. CASE Open
  <2>1. /\ Out \notin dir /\ dir' = dir \cup {Out} /\ disk' = [disk EXCEPT ![Out] = <<>>]
        /\ fileNo' = fileNo
    BY <1>1, <1>9 DEF Open, fopen_output_safely
  <2>2. o # Out
    BY <1>1, <2>1
  <2> QED BY <1>1, <1>4, <2>1, <2>2 DEF o
<1>10. CASE \/ Arm \/ Deliver \/ ReadFails \/ EndOfData \/ BadData \/ MagicCloses \/ TryCat \/ CopyRaw
            \/ EndOfCopy \/ Close \/ Return \/ applySavedTimeInfoToOutputFile \/ Disarm
  <2>1. /\ dir' = dir /\ fileNo' = fileNo
        /\ pc \in {"arm", "stream", "copy", "close", "return", "times", "disarm"}
    BY <1>10 DEF Arm, Deliver, ReadFails, EndOfData, BadData, MagicCloses, AtMagic, TryCat, CopyRaw,
       EndOfCopy, Close, Return, applySavedTimeInfoToOutputFile, Disarm
  <2>2. o # Out
    BY <1>1, <2>1 DEF Busy, Ended
  <2>3. disk'[o] = disk[o]
    BY <1>1, <2>2, <1>10 DEF Arm, Deliver, ReadFails, EndOfData, BadData, MagicCloses, TryCat, CopyRaw,
       EndOfCopy, Close, CloseStepWorks, Return, applySavedTimeInfoToOutputFile, Disarm, fwrite
  <2> QED BY <1>1, <1>4, <2>1, <2>2, <2>3 DEF o
<1>11. CASE RemoveInput
  BY <1>2, <1>11 DEF RemoveInput
<1>12. CASE BadMagic
  <2>1. exitValue \in Nat /\ UNCHANGED <<disk, buf, armed>> /\ pc = "badMagic"
    BY <1>12 DEF BadMagic, Codes
  <2>2. dir' = dir /\ pc' = "cleanup"
    BY <1>12, <2>1 DEF BadMagic, setExit, Fail
  <2> QED BY <1>1, <1>3, <2>1, <2>2 DEF Busy, o
<1>13. CASE Test
  BY <1>1, <1>13 DEF Test
<1>14. CASE cleanUpAndFail
  <2>1. dir' = dir /\ disk' = disk /\ pc' = "killed"
    BY <1>14 DEF cleanUpAndFail, setExit, Codes, Goto
  <2> QED BY <1>1, <2>1 DEF Ended, o
<1>15. CASE Signal
  <2>1. UNCHANGED <<fileNo, dir, disk, buf, armed>> /\ ~Ended /\ pc' = "cleanup"
    BY <1>15 DEF Signal, Fail
  <2> QED BY <1>1, <1>4, <2>1 DEF Busy, o
<1>16. CASE Kill
  BY <1>1, <1>16 DEF Kill, Goto, Ended, o
<1>17. CASE \E p \in Outputs : OtherCreates(p)
  <2>1. PICK p \in Outputs : OtherCreates(p)
    BY <1>17
  <2>2. /\ p \notin dir /\ dir' = dir \cup {p} /\ disk' = [disk EXCEPT ![p] = Other]
        /\ UNCHANGED <<fileNo, buf, armed, pc>>
    BY <2>1 DEF OtherCreates
  <2>3. o # p /\ disk'[o] = disk[o]
    BY <1>1, <2>2
  <2> QED BY <1>1, <1>4, <2>2, <2>3 DEF Busy, Ended, o
<1>18. CASE UNCHANGED vars
  <2>1. UNCHANGED <<fileNo, dir, disk, buf, armed, pc>>
    BY <1>18 DEF vars
  <2> QED BY <1>1, <1>4, <2>1 DEF Busy, Ended, o
<1> QED
  BY <1>5, <1>6, <1>7, <1>8, <1>9, <1>10, <1>11, <1>12, <1>13, <1>14, <1>15, <1>16, <1>17, <1>18
  DEF Next, Step

LEMMA OwingStep == IInv /\ Codes /\ InputsKept /\ Owing /\ [Next]_vars => Owing'
<1> SUFFICES ASSUME IInv, Codes, InputsKept, Owing, [Next]_vars, NEW n \in Inputs, Owed(n)'
             PROVE  /\ outOf'[n] \in dir' /\ disk'[outOf'[n]] = Whole(n)'
                    /\ ~Ended' /\ (Busy' \/ armed' \/ buf' # <<>>) => outOf'[n] # Out'
  BY DEF Owing
<1>1. /\ UNCHANGED settings /\ ToFile /\ keep /\ exitValue = 0 /\ exitValue' = 0
      /\ kind[n] # "trailing" /\ ~Replaceable(n)
      /\ \/ Owed(n) /\ (fileNo' = fileNo /\ pc' \notin {"next", "exited"} => n # Name)
         \/ Completes /\ n = Name
  BY OwedBefore
<1>2. Whole(n)' = Whole(n) /\ outOf' = outOf
  BY <1>1 DEF settings, Whole
<1>3. CASE Completes /\ n = Name
  BY <1>1, <1>2, <1>3, OwedCompleted
<1>4. CASE Owed(n) /\ (fileNo' = fileNo /\ pc' \notin {"next", "exited"} => n # Name)
  <2>1. /\ outOf[n] \in dir' /\ disk'[outOf[n]] = disk[outOf[n]]
        /\ ~Ended' /\ (Busy' \/ armed' \/ buf' # <<>>) => outOf[n] # Out'
    BY <1>1, <1>4, OwedKept
  <2>2. disk[outOf[n]] = Whole(n)
    BY <1>4 DEF Owing
  <2> QED BY <1>2, <2>1, <2>2
<1> QED BY <1>1, <1>3, <1>4

------------------------------------------------------------------------------
(* The one output of SM_F2O. *)

LEMMA Flattened ==
  ASSUME NEW S, NEW seqs \in Seq(Seq(S)), NEW s \in Seq(S)
  PROVE  /\ FlattenSeq(seqs) \in Seq(S) /\ FlattenSeq(<<>>) = <<>>
         /\ FlattenSeq(Append(seqs, s)) = FlattenSeq(seqs) \o s
<1>1. \A t : FlattenSeq(t) = Lemmas!Seqs!FlattenSeq(t)
  BY DEF FlattenSeq, Lemmas!Seqs!FlattenSeq
<1> QED BY <1>1, Lemmas!FlattenEmpty, Lemmas!FlattenAppend

LEMMA WholeType ==
  ASSUME TypeInv, NEW n \in Inputs
  PROVE  Whole(n) \in Seq(Items)
BY DataNext, NamesAssumption DEF Whole

LEMMA LaidNext ==
  ASSUME TypeInv, NEW k \in Nat, k < Len(args)
  PROVE  /\ Laid(k) \in Seq(Items) /\ Laid(0) = <<>>
         /\ args[k + 1] \in Inputs
         /\ Laid(k + 1) = Laid(k) \o Whole(args[k + 1])
<1> DEFINE parts(m) == [j \in 1..m |-> Whole(args[j])]
<1>1. args \in Seq(Inputs) /\ Len(args) \in Nat
  BY DEF TypeInv
<1>2. \A j \in 1..Len(args) : args[j] \in Inputs /\ Whole(args[j]) \in Seq(Items)
  BY <1>1, WholeType
<1>3. \A j \in 1..(k + 1) : Whole(args[j]) \in Seq(Items)
  BY <1>1, <1>2
<1>4. parts(k) \in Seq(Seq(Items)) /\ Len(parts(k)) = k
  BY <1>3
<1>5. parts(k + 1) = Append(parts(k), Whole(args[k + 1]))
  <2> DEFINE w(j) == Whole(args[j])
  <2> HIDE DEF w
  <2>1. [j \in 1..(k + 1) |-> w(j)] = Append([j \in 1..k |-> w(j)], w(k + 1))
    OBVIOUS
  <2> QED BY <2>1 DEF w
<1>6. k + 1 \in 1..Len(args)
  BY <1>1
<1>7. parts(0) = <<>>
  OBVIOUS
<1> HIDE DEF parts
<1>8. Laid(k) = FlattenSeq(parts(k)) /\ Laid(k + 1) = FlattenSeq(parts(k + 1)) /\ Laid(0) = FlattenSeq(parts(0))
  BY DEF Laid, parts
<1> QED BY <1>2, <1>4, <1>5, <1>6, <1>7, <1>8, Flattened

(* The step leaves what the output holds and the file it works on.          *)
LEMMA SameOutput ==
  ASSUME UNCHANGED settings
  PROVE  /\ PlainOutput' = PlainOutput /\ \A k : Laid(k)' = Laid(k)
         /\ op' = op /\ src' = src /\ force' = force /\ args' = args /\ kind' = kind
BY DEF settings, PlainOutput, Laid, Whole

(* The output while a file is at work. *)
LEMMA OutputFacts ==
  ASSUME IInv, PlainOutput, fileNo > 0
  PROVE  /\ Out = Stdout /\ Name \in Inputs /\ kind[Name] # "trailing"
         /\ Laid(fileNo - 1) \in Seq(Items) /\ Laid(fileNo) = Laid(fileNo - 1) \o Whole(Name)
         /\ Laid(fileNo) \in Seq(Items) /\ Whole(Name) \in Seq(Items)
         /\ disk[Stdout] \in Seq(Items) /\ buf \in Seq(Items)
<1>1. TypeInv /\ fileNo \in 1..Len(args)
  BY DEF IInv, TypeInv
<1>2. Out = Stdout /\ Name \in Inputs /\ kind[Name] # "trailing"
  BY <1>1, NameFacts DEF PlainOutput, Name
<1>3. fileNo - 1 \in Nat /\ fileNo - 1 < Len(args) /\ (fileNo - 1) + 1 = fileNo
  BY <1>1 DEF TypeInv
<1> DEFINE k == fileNo - 1
<1> HIDE DEF k
<1>4. k \in Nat /\ k < Len(args) /\ k + 1 = fileNo
  BY <1>3 DEF k
<1>5. Laid(k) \in Seq(Items) /\ Laid(k + 1) = Laid(k) \o Whole(args[k + 1])
  BY <1>1, <1>4, LaidNext
<1>6. Laid(k) \in Seq(Items) /\ Laid(fileNo) = Laid(k) \o Whole(Name)
  BY <1>4, <1>5 DEF Name
<1>7. Whole(Name) \in Seq(Items)
  BY <1>1, <1>2, WholeType
<1>8. disk[Stdout] \in Seq(Items) /\ buf \in Seq(Items)
  BY <1>1 DEF TypeInv
<1>9. Laid(fileNo) \in Seq(Items)
  BY <1>6, <1>7
<1> QED BY <1>2, <1>6, <1>7, <1>8, <1>9 DEF k

(* One piece more, of the data as they are or as they become. *)
LEMMA StdoutPiece ==
  ASSUME IInv, PlainOutput, fileNo > 0, UNCHANGED <<settings, fileNo>>, NEW form \in {"new", "raw"},
         got \in Nat, fwrite(Piece(Name, form, got + 1)), Waits(Laid(fileNo - 1) \o Data(Name, form, got))
  PROVE  \/ pc' = pc /\ disk'[Stdout] \o buf' = Laid(fileNo - 1) \o Data(Name, form, got + 1)
         \/ pc' = "cleanup"
<1> DEFINE piece == Piece(Name, form, got + 1)
           before == Laid(fileNo - 1)
           data == Data(Name, form, got)
<1>1. Out = Stdout /\ Name \in Inputs /\ before \in Seq(Items) /\ TypeInv
  BY OutputFacts DEF IInv
<1>2. piece \in Items
  BY <1>1, PieceIsItem
<1>3. data \in Seq(Items) /\ Data(Name, form, got + 1) = Append(data, piece)
  BY <1>1, DataNext
<1>4. disk[Out] \o buf = before \o data
  BY <1>1 DEF Waits
<1>5. UNCHANGED <<settings, fileNo>> /\ fwrite(piece)
  OBVIOUS
<1> HIDE DEF piece, before, data
<1>6. \/ pc' = pc /\ disk'[Out] \o buf' = Append(disk[Out] \o buf, piece)
      \/ pc' = "cleanup" /\ buf' = <<>>
  BY <1>1, <1>2, <1>5, fwriteAdds
<1>7. Append(before \o data, piece) = before \o Append(data, piece)
  <2>1. before \in Seq(Items) /\ data \in Seq(Items) /\ piece \in Items
    BY <1>1, <1>2, <1>3
  <2>2. before \o Append(data, piece) = Append(before \o data, piece)
    BY <2>1, ConcatAppend
  <2> QED BY <2>2
<1> QED BY <1>1, <1>3, <1>4, <1>6, <1>7 DEF before

(* What the closing of the files leaves. *)
LEMMA StdoutClose ==
  ASSUME IInv, PlainOutput, Close, step \in 1..2, op = "Z" /\ step = 2 => buf = <<>>,
         Waits(Laid(fileNo))
  PROVE  \/ pc' = "cleanup"
         \/ /\ pc' = "close" /\ step' \in 1..2 /\ disk'[Stdout] \o buf' = Laid(fileNo)
            /\ op = "Z" /\ step' = 2 => buf' = <<>>
         \/ pc' = "return" /\ disk'[Stdout] = Laid(fileNo) /\ buf' = <<>>
<1>1. /\ fileNo > 0 /\ TypeInv /\ src = "F2O" /\ op # "TEST"
      /\ UNCHANGED <<settings, fileNo>>
  BY DEF IInv, TypeInv, Close, PlainOutput
<1>2. Out = Stdout /\ disk[Stdout] \in Seq(Items) /\ buf \in Seq(Items) /\ Laid(fileNo) \in Seq(Items)
      /\ disk[Stdout] \o buf = Laid(fileNo)
      /\ disk \in [Outputs \cup {Stdout} -> Seq(Items)]
  BY <1>1, OutputFacts DEF Waits, TypeInv
<1>3. /\ Len(Closing) = 2
      /\ op = "Z" => Closing[1] = "flush" /\ Closing[2] = "closeIn"
      /\ op # "Z" => Closing[1] = "closeIn" /\ Closing[2] = "flush"
  BY <1>1 DEF Closing
<1>4. CASE Fail(1)
  BY <1>4 DEF Fail
<1>5. CASE /\ CloseStepWorks /\ step' = step + 1
           /\ Goto(IF step = Len(Closing) THEN "return" ELSE "close")
  <2>1. /\ disk'[Stdout] \o buf' = Laid(fileNo)
        /\ buf' = <<>> \/ (buf' = buf /\ Closing[step] # "flush")
        /\ disk'[Stdout] \in Seq(Items)
    <3>1. CASE disk' = [disk EXCEPT ![Out] = @ \o buf] /\ buf' = <<>>
      <4>1. disk'[Stdout] = Laid(fileNo)
        BY <1>2, <3>1
      <4> QED BY <1>2, <3>1, <4>1, ConcatEmpty
    <3>2. CASE UNCHANGED <<disk, buf>> /\ Closing[step] # "flush"
      BY <1>2, <3>2
    <3> QED BY <1>5, <3>1, <3>2 DEF CloseStepWorks
  <2>2. CASE step = 1
    <3>1. pc' = "close" /\ step' = 2
      BY <1>3, <1>5, <2>2 DEF Goto
    <3>2. op = "Z" => buf' = <<>>
      BY <1>3, <2>1, <2>2
    <3> QED BY <2>1, <3>1, <3>2
  <2>3. CASE step = 2
    <3>1. pc' = "return"
      BY <1>3, <1>5, <2>3 DEF Goto
    <3>2. buf' = <<>>
      BY <1>3, <2>1, <2>3
    <3>3. disk'[Stdout] = Laid(fileNo)
      BY <2>1, <3>2, ConcatEmpty
    <3> QED BY <3>1, <3>2, <3>3
  <2> QED BY <2>2, <2>3
<1> QED BY <1>4, <1>5 DEF Close

LEMMA StdoutStep == IInv /\ Codes /\ StdoutTells /\ [Next]_vars => StdoutTells'
<1> SUFFICES ASSUME IInv, Codes, StdoutTells, [Next]_vars, PlainOutput', exitValue' = 0
             PROVE  StdoutTells'
  BY DEF StdoutTells
<1>1. /\ UNCHANGED settings /\ exitValue = 0 /\ exitValue \in Nat
      /\ PlainOutput /\ \A k : Laid(k)' = Laid(k)
      /\ op' = op /\ force' = force /\ kind' = kind /\ args' = args
      /\ src = "F2O" /\ op # "TEST"
  BY DealtGrows, SameOutput DEF Codes, PlainOutput
<1>2. pc \notin {"times", "disarm", "removeInput"}
  BY <1>1 DEF IInv, KeepsInputs
<1>3. /\ fileNo \in Nat /\ Pieces \in Nat /\ got \in 0..Pieces
      /\ pc \notin {"next", "cleanup", "exited", "killed"} => fileNo > 0
      /\ disk[Stdout] \in Seq(Items) /\ buf \in Seq(Items)
      /\ disk \in [Outputs \cup {Stdout} -> Seq(Items)]
  BY NamesAssumption DEF IInv, TypeInv
<1>4. fileNo > 0 =>
        /\ Out = Stdout /\ Name \in Inputs /\ kind[Name] # "trailing"
        /\ Laid(fileNo - 1) \in Seq(Items) /\ Laid(fileNo) = Laid(fileNo - 1) \o Whole(Name)
  BY <1>1, OutputFacts
<1>5. fileNo' = fileNo => Name' = Name /\ magicNumberOK' = magicNumberOK
  BY <1>1 DEF Name, magicNumberOK
<1>6. CASE NextFile
  <2>1. /\ pc' = "check" /\ got' = 0 /\ fileNo' = fileNo + 1 /\ UNCHANGED <<disk, buf>> /\ pc = "next"
    BY <1>6 DEF NextFile, Goto
  <2>2. fileNo' - 1 = fileNo /\ Stands(Laid(fileNo))
    BY <1>1, <1>3, <2>1 DEF StdoutTells
  <2> QED BY <1>1, <2>1, <2>2 DEF StdoutTells, Stands
<1>7. CASE Finish
  <2>1. /\ disk' \in {disk, [disk EXCEPT ![Stdout] = @ \o buf]} /\ buf' = <<>> /\ pc' = "exited"
        /\ fileNo' = fileNo /\ pc = "next"
    BY <1>7 DEF Finish, Goto
  <2>2. disk[Stdout] = Laid(fileNo) /\ buf = <<>>
    BY <1>1, <2>1 DEF StdoutTells, Stands
  <2>3. disk[Stdout] \o <<>> = disk[Stdout]
    BY <1>3, ConcatEmpty
  <2>4. disk'[Stdout] = Laid(fileNo)
    BY <1>3, <2>1, <2>2, <2>3
  <2> QED BY <1>1, <2>1, <2>4 DEF StdoutTells, Stands
<1>8. CASE Refuse \/ OpenFails
  BY <1>1, <1>8 DEF Refuse, OpenFails, Skip, setExit
<1>9. CASE Accept \/ Open
  <2>1. /\ UNCHANGED <<disk, buf, got, fileNo>> /\ pc \in {"check", "open"} /\ pc' \in {"open", "arm"}
    BY <1>1, <1>9 DEF Accept, Open, Goto
  <2> QED BY <1>1, <2>1 DEF StdoutTells, Stands
<1>10. CASE Arm
  <2>1. pc = "arm" /\ pc' = "stream" /\ UNCHANGED <<disk, buf, got, fileNo>> /\ fileNo > 0
    BY <1>3, <1>10 DEF Arm, Goto
  <2>2. disk[Stdout] = Laid(fileNo - 1) /\ buf = <<>> /\ got = 0
    BY <1>1, <2>1 DEF StdoutTells, Stands
  <2>3. Data(Name, "new", 0) = <<>>
    BY <1>4, <2>1, DataNext
  <2>4. disk[Stdout] \o buf = Laid(fileNo - 1) \o <<>>
    BY <2>2
  <2> QED BY <1>1, <1>5, <2>1, <2>2, <2>3, <2>4 DEF StdoutTells, Waits
<1>11. CASE Deliver
  <2>1. /\ pc = "stream" /\ kind[Name] # "notbz" /\ fwrite(Piece(Name, "new", got + 1)) /\ got' = got + 1
        /\ fileNo' = fileNo /\ fileNo > 0
    BY <1>3, <1>11 DEF Deliver
  <2>2. Waits(Laid(fileNo - 1) \o Data(Name, "new", got))
    BY <1>1, <2>1 DEF StdoutTells
  <2>3. \/ pc' = pc /\ disk'[Stdout] \o buf' = Laid(fileNo - 1) \o Data(Name, "new", got + 1)
        \/ pc' = "cleanup"
    <3>1. UNCHANGED <<settings, fileNo>>
      BY <1>1, <2>1
    <3>2. got \in Nat
      BY <1>3
    <3> QED BY <1>1, <2>1, <2>2, <3>1, <3>2, StdoutPiece
  <2> QED BY <1>1, <1>5, <2>1, <2>3 DEF StdoutTells, Waits
<1>12. CASE CopyRaw
  <2>1. /\ pc = "copy" /\ fwrite(Piece(Name, "raw", got + 1)) /\ got' = got + 1
        /\ fileNo' = fileNo /\ fileNo > 0
    BY <1>3, <1>12 DEF CopyRaw
  <2>2. Waits(Laid(fileNo - 1) \o Data(Name, "raw", got)) /\ kind[Name] = "notbz"
    BY <1>1, <2>1 DEF StdoutTells
  <2>3. \/ pc' = pc /\ disk'[Stdout] \o buf' = Laid(fileNo - 1) \o Data(Name, "raw", got + 1)
        \/ pc' = "cleanup"
    <3>1. UNCHANGED <<settings, fileNo>>
      BY <1>1, <2>1
    <3>2. got \in Nat
      BY <1>3
    <3> QED BY <1>1, <2>1, <2>2, <3>1, <3>2, StdoutPiece
  <2> QED BY <1>1, <1>5, <2>1, <2>2, <2>3 DEF StdoutTells, Waits
<1>13. CASE ReadFails \/ BadData
  BY <1>13 DEF ReadFails, BadData, Fail, StdoutTells
<1>14. CASE EndOfData \/ EndOfCopy
  <2>1. /\ fileNo' = fileNo /\ fileNo > 0 /\ got = Pieces /\ UNCHANGED <<disk, buf>>
        /\ pc' = "close" /\ step' = 1 /\ pc \in {"stream", "copy"}
        /\ pc = "stream" => kind[Name] = "good"
    BY <1>3, <1>14 DEF EndOfData, EndOfCopy, Goto
  <2>2. disk[Stdout] \o buf = Laid(fileNo - 1) \o Whole(Name)
    BY <1>1, <2>1 DEF StdoutTells, Waits, Whole
  <2> QED BY <1>1, <1>4, <2>1, <2>2 DEF StdoutTells, Waits
<1>15. CASE MagicCloses
  <2>1. pc' = "return" /\ ~force /\ kind[Name] \in {"notbz", "trailing"} /\ fileNo' = fileNo /\ fileNo > 0
    BY <1>3, <1>15 DEF MagicCloses, AtMagic, Goto
  <2>2. ~magicNumberOK'
    BY <1>4, <1>5, <2>1 DEF magicNumberOK
  <2> QED BY <2>1, <2>2 DEF StdoutTells
<1>16. CASE TryCat
  <2>1. /\ pc = "stream" /\ pc' = "copy" /\ got' = 0 /\ kind[Name] \in {"notbz", "trailing"}
        /\ fileNo' = fileNo /\ fileNo > 0 /\ UNCHANGED <<disk, buf>>
    BY <1>3, <1>16 DEF TryCat, AtMagic, Goto
  <2>2. kind[Name] = "notbz" /\ disk[Stdout] \o buf = Laid(fileNo - 1) \o <<>>
    BY <1>1, <1>4, <2>1 DEF StdoutTells, Waits
  <2>3. Data(Name, "raw", 0) = <<>>
    BY <1>4, <2>1, DataNext
  <2> QED BY <1>1, <1>5, <2>1, <2>2, <2>3 DEF StdoutTells, Waits
<1>17. CASE Close
  <2>1. pc = "close" /\ fileNo' = fileNo
    BY <1>17 DEF Close
  <2>2. /\ step \in 1..2 /\ (op = "Z" /\ step = 2 => buf = <<>>) /\ Waits(Laid(fileNo))
    BY <1>1, <2>1 DEF StdoutTells
  <2>3. \/ pc' = "cleanup"
        \/ /\ pc' = "close" /\ step' \in 1..2 /\ disk'[Stdout] \o buf' = Laid(fileNo)
           /\ op = "Z" /\ step' = 2 => buf' = <<>>
        \/ pc' = "return" /\ disk'[Stdout] = Laid(fileNo) /\ buf' = <<>>
    BY <1>1, <1>17, <2>2, StdoutClose
  <2> QED BY <1>1, <2>1, <2>3 DEF StdoutTells, Waits, Stands
<1>18. CASE Return
  <2>1. /\ pc = "return" /\ UNCHANGED <<fileNo, disk, buf>>
        /\ pc' = IF magicNumberOK THEN "next" ELSE "badMagic"
    BY <1>1, <1>18 DEF Return, Goto
  <2>2. magicNumberOK => Stands(Laid(fileNo))
    BY <1>1, <2>1 DEF StdoutTells
  <2> QED BY <1>1, <2>1, <2>2 DEF StdoutTells, Stands
<1>19. CASE applySavedTimeInfoToOutputFile \/ Disarm \/ RemoveInput
  BY <1>2, <1>19 DEF applySavedTimeInfoToOutputFile, Disarm, RemoveInput
<1>20. CASE BadMagic
  BY <1>1, <1>20 DEF BadMagic, setExit
<1>21. CASE Test
  BY <1>1, <1>21 DEF Test
<1>22. CASE cleanUpAndFail \/ Kill
  <2>1. pc' = "killed"
    BY <1>1, <1>22 DEF cleanUpAndFail, Kill, setExit, Codes, Goto
  <2> QED BY <2>1 DEF StdoutTells
<1>23. CASE Signal
  BY <1>23 DEF Signal, Fail, StdoutTells
<1>24. CASE \E o \in Outputs : OtherCreates(o)
  <2>1. PICK o \in Outputs : OtherCreates(o)
    BY <1>24
  <2>2. disk' = [disk EXCEPT ![o] = Other] /\ UNCHANGED <<fileNo, buf, pc, got, step>>
    BY <2>1 DEF OtherCreates
  <2>3. disk'[Stdout] = disk[Stdout]
    BY <1>3, <2>2, NamesAssumption
  <2> QED BY <1>1, <1>5, <2>2, <2>3 DEF StdoutTells, Stands, Waits
<1>25. CASE UNCHANGED vars
  <2>1. UNCHANGED <<fileNo, disk, buf, pc, got, step>>
    BY <1>25 DEF vars
  <2> QED BY <1>1, <1>5, <2>1 DEF StdoutTells, Stands, Waits
<1> QED
  BY <1>6, <1>7, <1>8, <1>9, <1>10, <1>11, <1>12, <1>13, <1>14, <1>15, <1>16, <1>17, <1>18, <1>19,
     <1>20, <1>21, <1>22, <1>23, <1>24, <1>25 DEF Next, Step

------------------------------------------------------------------------------
LEMMA InitStatus == Init => StatusInv
<1> SUFFICES ASSUME Init PROVE StatusInv
  OBVIOUS
<1>1. /\ pc = "next" /\ fileNo = 0 /\ exitValue = 0 /\ failCode = 0 /\ buf = <<>> /\ ~testFailsExist
      /\ dir \subseteq Inputs \cup Outputs /\ Inputs \subseteq dir
      /\ disk = [o \in Outputs \cup {Stdout} |-> IF o \in dir THEN Other ELSE <<>>]
  BY DEF Init
<1>2. ~ \E j \in 1..Past : TRUE
  BY <1>1 DEF Past
<1>3. Codes /\ TestsTell /\ InputsKept /\ Owing
  BY <1>1, <1>2 DEF Codes, TestsTell, InputsKept, Owing, Owed, Dealt
<1>4. disk[Stdout] = <<>>
  BY <1>1, NamesAssumption
<1>5. Laid(0) = <<>>
  <2>1. [j \in 1..0 |-> Whole(args[j])] = <<>>
    OBVIOUS
  <2>2. <<>> \in Seq(Seq(Items)) /\ <<>> \in Seq(Items)
    OBVIOUS
  <2>3. FlattenSeq(<<>>) = <<>>
    BY <2>2, Flattened
  <2> QED BY <2>1, <2>3 DEF Laid
<1>6. StdoutTells
  BY <1>1, <1>4, <1>5 DEF StdoutTells, Stands
<1> QED BY <1>3, <1>6 DEF StatusInv

LEMMA NextStatus == IInv /\ StatusInv /\ [Next]_vars => StatusInv'
BY CodesStep, TestsStep, InputsKeptStep, OwingStep, StdoutStep DEF StatusInv

LEMMA StatusTellsHolds == IInv /\ StatusInv => StatusTells
<1> SUFFICES ASSUME IInv, StatusInv, pc = "exited", exitValue = 0 PROVE StatusTells
  BY DEF StatusTells
<1>1. /\ fileNo = Len(args) /\ Past = Len(args) /\ Len(args) \in Nat
      /\ \A j \in 1..Len(args) : args[j] \in Inputs
      /\ op \in {"Z", "UNZ", "TEST"} /\ src \in {"F2F", "F2O"}
  BY DEF StatusInv, Codes, Past, IInv, TypeInv
<1>2. ASSUME op = "TEST", NEW j \in 1..Len(args) PROVE kind[args[j]] \in {"good", "trailing"}
  BY <1>1, <1>2 DEF StatusInv, TestsTell
<1>3. ASSUME op # "TEST", src = "F2F", NEW j \in 1..Len(args)
      PROVE  /\ args[j] \in dir <=> keep
             /\ \/ kind[args[j]] = "trailing" \/ Replaceable(args[j])
                \/ disk[outOf[args[j]]] = Whole(args[j])
  <2>1. CASE keep
    <3>1. args[j] \in dir
      BY <1>1, <1>3, <2>1 DEF StatusInv, InputsKept, ToFile
    <3>2. Dealt(args[j])
      BY <1>1 DEF Dealt
    <3>3. kind[args[j]] # "trailing" /\ ~Replaceable(args[j]) => Owed(args[j])
      BY <1>3, <2>1, <3>2 DEF Owed, ToFile
    <3> QED BY <1>1, <2>1, <3>1, <3>3 DEF StatusInv, Owing
  <2>2. CASE ~keep
    <3>1. args[j] \notin dir
      BY <1>1, <1>3, <2>2 DEF StatusInv, InputsKept, ToFile
    <3> QED BY <1>1, <2>2, <3>1 DEF IInv, NothingLost
  <2> QED BY <2>1, <2>2
<1>4. ASSUME op # "TEST", src = "F2O", \A j \in 1..Len(args) : kind[args[j]] # "trailing"
      PROVE  disk[Stdout] = FlattenSeq([j \in 1..Len(args) |-> Whole(args[j])])
  BY <1>1, <1>4 DEF StatusInv, StdoutTells, PlainOutput, Stands, Laid
<1> QED BY <1>2, <1>3, <1>4 DEF StatusTells

(* Exit status 0 tells the truth, for any command line and whatever fails  *)
(* on the way: no path of compress, uncompress, testf and cleanUpAndFail   *)
(* leaves a named file undone or broken and the status 0.                  *)
THEOREM StatusIsTrue == Spec => []StatusTells
BY InitIInv, NextIInv, InitStatus, NextStatus, StatusTellsHolds, PTL DEF Spec
=============================================================================

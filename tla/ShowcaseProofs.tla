--------------------------- MODULE ShowcaseProofs ---------------------------
(***************************************************************************)
(* Proofs about Showcase, for any logos and any number of faults.          *)
(***************************************************************************)
EXTENDS Showcase, TLAPS

USE ShowcaseAssumption DEF vars, round, Names

LEMMA InitIInv == Init => IInv
  BY DEF Init, IInv, TypeOK, RoundInv, SoundRoundsAgree, Local

LEMMA AbandonTypeOK ==
    ASSUME TypeOK, Abandon, broken' \subseteq Images
    PROVE  TypeOK'
<1>1. faults' \in 0 .. MaxFaults
  BY DEF TypeOK, Abandon
<1>2. /\ step' = "wait" /\ missing' = {} /\ extra' = {} /\ writing' = {} /\ sound' = FALSE
      /\ cloud' = cloud /\ current' = current /\ files' = files
      /\ settings' = settings /\ changes' = changes
  BY DEF Abandon
<1> QED
  BY <1>1, <1>2 DEF TypeOK

(* A fault leaves files that were being written to the broken ones.        *)
LEMMA AbandonIInv ==
    ASSUME IInv, Abandon, broken' = broken \union writing
    PROVE  IInv'
<1>1. TypeOK'
  BY AbandonTypeOK DEF IInv, TypeOK
<1>2. RoundInv' /\ SoundRoundsAgree'
  BY DEF Abandon, IInv, RoundInv, SoundRoundsAgree
<1> QED
  BY <1>1, <1>2 DEF IInv

LEMMA LoadLogoIInv ==
    ASSUME NamesAreFiles, IInv, NEW i \in Images, LoadLogo(i)
    PROVE  IInv'
<1>0. writing' = {i} /\ files' = [j \in Images |-> IF j = i THEN "partial" ELSE files[j]]
  <2>1. Stored(i) \subseteq {i}
    BY DEF Stored, Local, NamesAreFiles
  <2> QED
    BY <2>1 DEF LoadLogo
<1>1. TypeOK'
  BY <1>0 DEF LoadLogo, IInv, TypeOK
<1>2. Local' = Local \union {i}
  BY <1>0 DEF LoadLogo, Local, IInv, TypeOK
<1>3. Local' \union (missing' \ {Blank}) = Local \union (missing \ {Blank})
  BY <1>0, <1>2 DEF LoadLogo
<1>4. \A j \in Images : files'[j] = "partial" => j \in broken' \union writing'
  BY <1>0 DEF LoadLogo, IInv, TypeOK, RoundInv
<1>5. \A j \in writing' : files'[j] = "partial"
  BY <1>0 DEF LoadLogo, IInv, TypeOK
<1>6. RoundInv'
  BY <1>0, <1>3, <1>4, <1>5 DEF LoadLogo, IInv, RoundInv
<1> QED
  BY <1>1, <1>6 DEF LoadLogo, IInv, SoundRoundsAgree

LEMMA FinishLogoIInv ==
    ASSUME IInv, FinishLogo
    PROVE  IInv'
<1>1. TypeOK'
  BY DEF FinishLogo, IInv, TypeOK
<1>2. \A j \in writing : j \in Local
  BY DEF FinishLogo, IInv, TypeOK, RoundInv, Local
<1>3. Local' = Local
  BY <1>2 DEF FinishLogo, Local, IInv, TypeOK
<1>4. \A j \in Images : files'[j] = "partial" => j \in broken' \union writing'
  BY DEF FinishLogo, IInv, TypeOK, RoundInv
<1>5. RoundInv'
  BY <1>3, <1>4 DEF FinishLogo, IInv, RoundInv
<1> QED
  BY <1>1, <1>5 DEF FinishLogo, IInv, SoundRoundsAgree

LEMMA SkipLogoIInv ==
    ASSUME IInv, NEW i \in Names, SkipLogo(i)
    PROVE  IInv'
<1>1. TypeOK'
  <2>1. faults' \in 0 .. MaxFaults
    <3>1. faults \in 0 .. MaxFaults
      BY DEF IInv, TypeOK
    <3>2. faults' = faults \/ (faults < MaxFaults /\ faults' = faults + 1)
      BY DEF SkipLogo
    <3> QED
      BY <3>1, <3>2
  <2>3. sound' \in BOOLEAN
    BY DEF SkipLogo, IInv, TypeOK
  <2>2. /\ missing' = missing \ {i}
        /\ UNCHANGED <<cloud, current, files, step, settings, extra, writing, changes,
                       broken>>
    BY DEF SkipLogo
  <2> QED
    BY <2>1, <2>2, <2>3 DEF IInv, TypeOK
<1>2. Local' = Local
  BY DEF SkipLogo, Local
<1>3. RoundInv'
  BY <1>2 DEF SkipLogo, IInv, RoundInv
<1> QED
  BY <1>1, <1>3 DEF SkipLogo, IInv, SoundRoundsAgree, RoundInv

LEMMA DeleteFileIInv ==
    ASSUME IInv, NEW i \in Images, DeleteFile(i)
    PROVE  IInv'
<1>1. TypeOK'
  BY DEF DeleteFile, IInv, TypeOK
<1>2. Local' = Local \ {i}
  BY DEF DeleteFile, Local, IInv, TypeOK
<1>3. i \notin settings /\ i \in extra /\ missing = {} /\ missing' = {}
  BY DEF DeleteFile, IInv, RoundInv
<1>4. sound => Local' \union (missing' \ {Blank}) = (settings \ {Blank}) \union extra'
  BY <1>2, <1>3 DEF DeleteFile, IInv, RoundInv
<1>5. \A j \in Images : files'[j] = "partial" => j \in broken' \union writing'
  BY DEF DeleteFile, IInv, TypeOK, RoundInv
<1>6. RoundInv'
  BY <1>4, <1>5 DEF DeleteFile, IInv, RoundInv
<1> QED
  BY <1>1, <1>6 DEF DeleteFile, IInv, SoundRoundsAgree

(* The other steps leave the folder as it is.                              *)
LEMMA RestIInv ==
    ASSUME IInv,
           \/ Fetch \/ Publish \/ ListFiles \/ EndRound \/ NextRound \/ Recycle
           \/ \E s \in SUBSET Names : ChangeShowcase(s)
           \/ UNCHANGED vars
    PROVE  IInv'
<1>1. CASE Fetch
  BY <1>1 DEF Fetch, IInv, TypeOK, RoundInv, SoundRoundsAgree, Local
<1>2. CASE Publish
  BY <1>2 DEF Publish, IInv, TypeOK, RoundInv, SoundRoundsAgree, Local
<1>3. CASE ListFiles
  <2>1. Local' = Local /\ Local \subseteq Images
    BY <1>3 DEF ListFiles, Local
  <2>2. TypeOK'
    BY <1>3, <2>1 DEF ListFiles, IInv, TypeOK
  <2>3. Local \union ((settings \ Local) \ {Blank}) = (settings \ {Blank}) \union (Local \ settings)
    BY <2>1
  <2>4. RoundInv'
    BY <1>3, <2>1, <2>3 DEF ListFiles, IInv, RoundInv
  <2> QED
    BY <1>3, <2>2, <2>4 DEF ListFiles, IInv, SoundRoundsAgree
<1>4. CASE EndRound
  <2>1. Local' = Local
    BY <1>4 DEF EndRound, Local
  <2>2. TypeOK' /\ RoundInv'
    BY <1>4, <2>1 DEF EndRound, IInv, TypeOK, RoundInv
  <2>3. sound => current = settings /\ Local = settings \ {Blank}
    BY <1>4 DEF EndRound, IInv, RoundInv
  <2>4. \A i \in Local : files[i] = "complete" \/ i \in broken
    BY <1>4 DEF EndRound, IInv, TypeOK, RoundInv, Local
  <2>5. SoundRoundsAgree'
    BY <1>4, <2>1, <2>3, <2>4 DEF EndRound, SoundRoundsAgree
  <2> QED
    BY <2>2, <2>5 DEF IInv
<1>5. CASE NextRound
  BY <1>5 DEF NextRound, IInv, TypeOK, RoundInv, SoundRoundsAgree, Local
<1>6. CASE Recycle
  <2>1. TypeOK'
    BY <1>6 DEF Recycle, IInv, TypeOK
  <2> QED
    BY <1>6, <2>1 DEF Recycle, IInv, RoundInv, SoundRoundsAgree
<1>7. ASSUME NEW s \in SUBSET Names, ChangeShowcase(s) PROVE IInv'
  <2>1. TypeOK'
    BY <1>7 DEF ChangeShowcase, IInv, TypeOK
  <2> QED
    BY <1>7, <2>1 DEF ChangeShowcase, IInv, RoundInv, SoundRoundsAgree, Local
<1>8. CASE UNCHANGED vars
  BY <1>8 DEF IInv, TypeOK, RoundInv, SoundRoundsAgree, Local
<1> QED
  BY <1>1, <1>2, <1>3, <1>4, <1>5, <1>6, <1>7, <1>8

LEMMA NextIInv ==
    ASSUME NamesAreFiles, IInv, [Next]_vars
    PROVE  IInv'
<1>1. CASE FetchFails \/ ListFails \/ WriteFails \/ LogosFail \/ DeleteFails
  <2>1. Abandon
    BY <1>1 DEF FetchFails, ListFails, WriteFails, LogosFail, DeleteFails
  <2>2. broken' = broken \union writing
    BY <1>1 DEF FetchFails, ListFails, WriteFails, LogosFail, DeleteFails, IInv, RoundInv
  <2> QED
    BY <2>1, <2>2, AbandonIInv
<1> QED
  BY <1>1, LoadLogoIInv, FinishLogoIInv, SkipLogoIInv, DeleteFileIInv, RestIInv
     DEF Next, Loop

(* The inductive invariant, if no two names share a file: what the folder  *)
(* holds at each step of a round.                                          *)
THEOREM Invariance == ASSUME NamesAreFiles PROVE Spec => []IInv
<1>1. IInv /\ [Next]_vars => IInv'
  BY NextIInv, NamesAreFiles
<1> QED
  BY <1>1, InitIInv, PTL DEF Spec

(* A round without failures leaves the folder as the settings say.         *)
THEOREM RoundsAgree == ASSUME NamesAreFiles PROVE Spec => []SoundRoundsAgree
<1>1. IInv => SoundRoundsAgree
  BY DEF IInv
<1>2. Spec => []IInv
  BY Invariance, NamesAreFiles
<1> QED
  BY <1>1, <1>2, PTL

(* What a file is deleted for: it is not among the published settings.     *)
LEMMA StepKeeps ==
    ASSUME NamesAreFiles, IInv, [Next]_vars, NEW i \in current \ {Blank}, Stored(i) # {}
    PROVE  Stored(i)' # {}
<1>1. i \in Images /\ files[i] # "absent"
  BY DEF Stored, Local, NamesAreFiles, IInv, TypeOK
<1>2. SUFFICES files'[i] # "absent"
  BY <1>1 DEF Stored, Local
<1>3. CASE \E j \in Images : DeleteFile(j)
  <2>1. PICK j \in Images : DeleteFile(j)
    BY <1>3
  <2>2. i # j
    BY <2>1 DEF DeleteFile, IInv, RoundInv
  <2> QED
    BY <1>1, <2>1, <2>2 DEF DeleteFile, IInv, TypeOK
<1>4. CASE \E j \in Images : LoadLogo(j)
  BY <1>1, <1>4 DEF LoadLogo, IInv, TypeOK
<1>5. CASE FinishLogo
  BY <1>1, <1>5 DEF FinishLogo, IInv, TypeOK
<1>6. CASE UNCHANGED files
  BY <1>1, <1>6
<1> QED
  BY <1>3, <1>4, <1>5, <1>6
     DEF Next, Loop, Fetch, Publish, ListFiles, EndRound, NextRound, SkipLogo, Abandon,
         ChangeShowcase, FetchFails, ListFails, WriteFails, LogosFail, DeleteFails, Recycle

(* No file of a published logo is ever deleted, whatever failed before.    *)
THEOREM LogosKept == ASSUME NamesAreFiles PROVE Spec => PublishedLogosKept
<1> DEFINE Keeps == \A i \in current \ {Blank} : Stored(i) # {} => Stored(i)' # {}
<1>1. IInv /\ [Next]_vars => [Keeps]_vars
  BY StepKeeps, NamesAreFiles
<1>2. Spec => []IInv
  BY Invariance, NamesAreFiles
<1> QED
  BY <1>1, <1>2, PTL DEF Spec, PublishedLogosKept
=============================================================================

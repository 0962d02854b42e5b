---------------------------- MODULE UploadProofs ----------------------------
(***************************************************************************)
(* The invariants of Uploads, for every chunk size, limit, margin and      *)
(* file.  What makes them inductive is where the handler stands: while it  *)
(* reads, everything read was kept and is within the limit, and the        *)
(* answers given so far were right.                                        *)
(***************************************************************************)
EXTENDS Uploads, TLAPS

(* What is known of the file at each step of save_resume.                  *)
Progress ==
    /\ pc = "limit" => total = 0
    /\ pc = "type" => total = 0
    /\ pc \in {"limit", "type", "read", "save"} =>
          status = 0 /\ stored = {} /\ kept = total /\ total <= MaxBytes
    /\ pc \in {"limit", "type", "read"} => contents = 0
    /\ pc = "save" => contents = kept
    /\ pc \in {"read", "save"} => file.declared \in ALLOWED_CONTENT_TYPES
    /\ pc = "save" => total = file.size /\ file.magic = file.declared
    /\ pc = "done" => status # 0

IInv ==
    TypeOK /\ MemoryBounded /\ AcceptedIffAcceptable /\ StoredWhole /\ Progress

LEMMA FileFields ==
  ASSUME file \in Upload
  PROVE  /\ file.size \in Nat /\ file.overhead \in Nat
         /\ file.announced \in BOOLEAN
         /\ file.magic = file.declared => file.declared \in ALLOWED_CONTENT_TYPES
<1>1. file \in [size : Sizes, overhead : Overheads, announced : BOOLEAN,
                declared : ALLOWED_CONTENT_TYPES \cup {"other"},
                magic : ALLOWED_CONTENT_TYPES \cup {"none"}]
  BY Zenon DEF Upload
<1>2. /\ file.size \in Sizes /\ file.overhead \in Overheads
      /\ file.announced \in BOOLEAN
      /\ file.declared \in ALLOWED_CONTENT_TYPES \cup {"other"}
      /\ file.magic \in ALLOWED_CONTENT_TYPES \cup {"none"}
  BY <1>1
<1> QED
  BY <1>2, SizeAssumption DEF ALLOWED_CONTENT_TYPES

LEMMA InitIInv == Init => IInv
  BY FileFields, SizeAssumption
     DEF Init, IInv, TypeOK, MemoryBounded, AcceptedIffAcceptable, StoredWhole, Progress

LEMMA NextIInv == IInv /\ [Next]_vars => IInv'
<1> SUFFICES ASSUME IInv, [Next]_vars PROVE IInv'
  OBVIOUS
<1> USE SizeAssumption
    DEF IInv, TypeOK, MemoryBounded, AcceptedIffAcceptable, StoredWhole, Progress,
        Acceptable, memory
<1>0. /\ file.size \in Nat /\ file.overhead \in Nat
      /\ file.announced \in BOOLEAN
      /\ file.magic = file.declared => file.declared \in ALLOWED_CONTENT_TYPES
  BY FileFields
<1>1. CASE LimitRequestSize
  BY <1>0, <1>1 DEF LimitRequestSize, TooLong, Goto, Answer
<1>2. CASE CheckType
  BY <1>0, <1>2 DEF CheckType, Goto, Answer
<1>3. CASE Read
  <2>1. /\ ChunkSize \in 0..Chunk
        /\ total + ChunkSize \in 0..file.size
    BY <1>0, <1>3 DEF ChunkSize, Read
  <2> QED
    BY <1>0, <1>3, <2>1 DEF Read, Goto, Answer
<1>4. CASE DetectMime
  BY <1>0, <1>4 DEF DetectMime, Goto, Answer
<1>5. CASE Save
  BY <1>0, <1>5 DEF Save, Answer
<1>6. CASE Done
  BY <1>6 DEF Done, vars
<1>7. CASE UNCHANGED vars
  BY <1>7 DEF vars
<1> QED
  BY <1>1, <1>2, <1>3, <1>4, <1>5, <1>6, <1>7 DEF Next, Step

(* The inductive invariant: the properties, and what the handler knows     *)
(* while it reads.                                                         *)
THEOREM Inductive == Spec => []IInv
  BY InitIInv, NextIInv, PTL DEF Spec

(* The loop never keeps more than it read, nor reads past the file, and    *)
(* what is joined is no more than what was kept.                           *)
THEOREM TypeCorrect == Spec => []TypeOK
<1>1. IInv => TypeOK
  BY DEF IInv
<1> QED BY <1>1, Inductive, PTL

(* save_resume reads at most one chunk past the limit, keeps at most the   *)
(* limit in chunks, and at most twice the limit with their concatenation.  *)
THEOREM Bounded == Spec => []MemoryBounded
<1>1. IInv => MemoryBounded
  BY DEF IInv
<1> QED
  BY Inductive, <1>1, PTL

(* A request whose overhead fits the margin is accepted exactly when its   *)
(* file is within the limit and is what it says.                           *)
THEOREM Accepted == Spec => []AcceptedIffAcceptable
<1>1. IInv => AcceptedIffAcceptable
  BY DEF IInv
<1> QED
  BY Inductive, <1>1, PTL

(* Only whole and acceptable files are stored, and only with a 201.        *)
THEOREM Whole == Spec => []StoredWhole
<1>1. IInv => StoredWhole
  BY DEF IInv
<1> QED
  BY Inductive, <1>1, PTL
=============================================================================

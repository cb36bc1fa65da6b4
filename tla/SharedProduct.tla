---------------------------- MODULE SharedProduct ----------------------------
(***************************************************************************)
(* S9_IPC_Shared_Memory: posix_shm_producer.c writes a product into shared *)
(* memory, field by field as the user types it; posix_shm_consumer.c       *)
(* prints it and removes the name.  Nothing synchronises the two.          *)
(*                                                                         *)
(* An object is known by the producer that created it.  A field holds the  *)
(* number of the producer that wrote it, 0 in fresh memory.                *)
(***************************************************************************)
EXTENDS Naturals

CONSTANTS
    Makers,     \* producer processes
    Buyers      \* consumer processes

NoObject == 0
Fields == {"id", "name", "price"}
Unwritten == [f \in Fields |-> 0]

VARIABLES
    shm,        \* the object SHM_NAME leads to
    sized,      \* objects: ftruncate was called
    product,    \* objects: who wrote each field
    mpl,        \* producers: place
    mobj,       \* producers: the object they have open
    bpl,        \* consumers: place
    bobj,       \* consumers: the object they have open
    seen,       \* consumers: the fields printed
    alone,      \* history: producers that had the object for themselves and valid input
    good,       \* history: objects last written by such a producer, from beginning to end
    quiet       \* history: consumers that opened such an object, and no producer has since

shmVars == <<shm, sized, product, mpl, mobj, bpl, bobj, seen, alone, good, quiet>>

ShmInit ==
    /\ shm = NoObject /\ sized = {}
    /\ product = [m \in Makers |-> Unwritten]
    /\ mpl = [m \in Makers |-> "off"] /\ mobj = [m \in Makers |-> NoObject]
    /\ bpl = [b \in Buyers |-> "off"] /\ bobj = [b \in Buyers |-> NoObject]
    /\ seen = [b \in Buyers |-> Unwritten]
    /\ alone = {} /\ good = {} /\ quiet = {}

-----------------------------------------------------------------------------
(* The producer.                                                           *)

Working(o) == {m \in Makers : mobj[m] = o /\ mpl[m] \in {"truncate"} \cup Fields}

(* shm_open with O_CREAT: an object that was not consumed is used again.   *)
MakerOpens(m) ==
    /\ mpl[m] = "off"
    /\ LET o == IF shm = NoObject THEN m ELSE shm IN
         /\ shm' = o /\ mobj' = [mobj EXCEPT ![m] = o]
         /\ good' = good \ {o}
         /\ alone' = (alone \ Working(o)) \cup (IF Working(o) = {} THEN {m} ELSE {})
         /\ quiet' = {b \in quiet : bobj[b] # o \/ bpl[b] = "ended"}
    /\ mpl' = [mpl EXCEPT ![m] = "truncate"]
    /\ UNCHANGED <<sized, product, bpl, bobj, seen>>

Truncate(m) ==
    /\ mpl[m] = "truncate"
    /\ sized' = sized \cup {mobj[m]}
    /\ mpl' = [mpl EXCEPT ![m] = "id"]
    /\ UNCHANGED <<shm, product, mobj, bpl, bobj, seen, alone, good, quiet>>

After(f) == CASE f = "id" -> "name" [] f = "name" -> "price" [] f = "price" -> "ended"

(* Seeded fault: MAP_PRIVATE, so that nobody else sees the price.          *)
Written_Private(m, f) == [product[mobj[m]] EXCEPT ![f] = IF f = "price" THEN @ ELSE m]

Written(m, f) == [product[mobj[m]] EXCEPT ![f] = m]

(* scanf, fgets, scanf.  A number that is none leaves its field as it was, *)
(* which nobody looks at.                                                  *)
WriteField(m, f) ==
    /\ mpl[m] = f
    /\ \/ product' = [product EXCEPT ![mobj[m]] = Written(m, f)] /\ UNCHANGED alone
       \/ f # "name" /\ alone' = alone \ {m} /\ UNCHANGED product
    /\ mpl' = [mpl EXCEPT ![m] = After(f)]
    /\ good' = (IF f = "price" /\ m \in alone' THEN good \cup {mobj[m]} ELSE good)
    /\ UNCHANGED <<shm, sized, mobj, bpl, bobj, seen, quiet>>

(* ftruncate or mmap fails, or the input ends before the name: the object  *)
(* stays as it is.                                                         *)
MakerDies(m) ==
    /\ mpl[m] \in {"truncate", "id", "name"}
    /\ mpl' = [mpl EXCEPT ![m] = "ended"]
    /\ UNCHANGED <<shm, sized, product, mobj, bpl, bobj, seen, alone, good, quiet>>

-----------------------------------------------------------------------------
(* The consumer.                                                           *)

BuyerOpens(b) ==
    /\ bpl[b] = "off"
    /\ IF shm = NoObject
       THEN bpl' = [bpl EXCEPT ![b] = "failed"] /\ UNCHANGED <<bobj, quiet>>
       ELSE /\ bpl' = [bpl EXCEPT ![b] = "read"]
            /\ bobj' = [bobj EXCEPT ![b] = shm]
            /\ quiet' = (IF shm \in good THEN quiet \cup {b} ELSE quiet)
    /\ UNCHANGED <<shm, sized, product, mpl, mobj, seen, alone, good>>

(* printf; an object of size 0 cannot be touched.                          *)
ReadProduct(b) ==
    /\ bpl[b] = "read"
    /\ IF bobj[b] \notin sized
       THEN bpl' = [bpl EXCEPT ![b] = "buserror"] /\ UNCHANGED seen
       ELSE bpl' = [bpl EXCEPT ![b] = "unlink"] /\ seen' = [seen EXCEPT ![b] = product[bobj[b]]]
    /\ UNCHANGED <<shm, sized, product, mpl, mobj, bobj, alone, good, quiet>>

(* The name is removed, whichever object it leads to by now.               *)
Unlink(b) ==
    /\ bpl[b] = "unlink"
    /\ shm' = NoObject
    /\ bpl' = [bpl EXCEPT ![b] = "ended"]
    /\ UNCHANGED <<sized, product, mpl, mobj, bobj, seen, alone, good, quiet>>

-----------------------------------------------------------------------------
ShmNext ==
    \/ \E m \in Makers :
         MakerOpens(m) \/ Truncate(m) \/ MakerDies(m) \/ \E f \in Fields : WriteField(m, f)
    \/ \E b \in Buyers : BuyerOpens(b) \/ ReadProduct(b) \/ Unlink(b)

-----------------------------------------------------------------------------
(* A consumer prints one whole product, although the memory may be an old  *)
(* object that was filled before, and other consumers remove the name: as  *)
(* long as the last producer had the object for itself and valid input,    *)
(* and none has begun again since the consumer opened it.  Everything else *)
(* may be torn, half empty, or end in SIGBUS.                              *)
ReadsOneProduct ==
    \A b \in quiet :
        /\ bpl[b] # "buserror"
        /\ bpl[b] \in {"unlink", "ended"} => \E m \in Makers : seen[b] = [f \in Fields |-> m]
=============================================================================

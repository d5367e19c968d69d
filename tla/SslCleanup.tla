----------------------------- MODULE SslCleanup -----------------------------
(***************************************************************************)
(* The control flow of one function of ssl_util (src/unnamed/part_002),   *)
(* reduced to what its error paths do with the objects it owns.           *)
(*                                                                         *)
(* A function is a program: a sequence of instructions, each standing for *)
(* a line or a few lines of the C code.  An allocation (EVP_*_new,        *)
(* BIO_new, fopen, d2i_*, ENGINE_by_id, ...) and a library call can fail, *)
(* and the code then jumps to its error label, often setting the return   *)
(* value first.  A condition on the function's inputs is a branch either  *)
(* way.  Objects carry a reference count, because ENGINE_init takes a     *)
(* second reference on the engine and ENGINE_free/ENGINE_finish each drop *)
(* one; every other object has at most one.                               *)
(*                                                                         *)
(* What the model tracks per object: how many references the function     *)
(* still holds (cnt), whether its pointer variable is non-NULL (ptr), and *)
(* whether it was handed to the caller or a global (given).               *)
(***************************************************************************)
EXTENDS Integers, Sequences, FiniteSets

CONSTANT Progs   \* the functions checked: each a sequence of instructions

(* Instructions.  r is the object the line is about ("-" for none), alt *)
(* the label it jumps to (0 for none), ret the value it assigns to the   *)
(* function's result ({} leaves it alone).                               *)
None == "-"

Ins4(op, r, alt, rv) == [op |-> op, r |-> r, alt |-> alt, ret |-> rv]

(* p = X_new(): a new object, or NULL. *)
Alloc(r)            == Ins4("alloc", r, 0, {})
(* p = mem_alloc(): never NULL, cml's allocator aborts instead. *)
Mem(r)              == Ins4("mem", r, 0, {})
(* A call that on success gives one more reference on r (ENGINE_init, *)
(* PEM_read_bio_X509 into &r) and on failure jumps to alt.             *)
Acquire(r, alt, rv) == Ins4("acquire", r, alt, rv)
(* if (!r) { ret = rv; goto alt; } *)
IfNull(r, alt, rv)  == Ins4("ifnull", r, alt, rv)
(* if (!f(r, ...)) { ret = rv; goto alt; }; alt 0: the call cannot fail. *)
Call(r, alt, rv)    == Ins4("call", r, alt, rv)
(* A condition on the inputs: either way. *)
Branch(alt)         == Ins4("branch", None, alt, {})
Set(v)              == Ins4("set", None, 0, {v})
Free(r)             == Ins4("free", r, 0, {})
Free0(r)            == Ins4("free0", r, 0, {})
(* fclose(fp): unlike the X_free functions, not defined for NULL. *)
Close(r)            == Ins4("close", r, 0, {})
(* r is passed to a callee that dereferences it (or ASSERTs it). *)
Deref(r)            == Ins4("deref", r, 0, {})
Give(r)             == Ins4("give", r, 0, {})
Adopt(r)            == Ins4("adopt", r, 0, {})
Goto(alt)           == Ins4("goto", None, alt, {})
Return(rv)          == Ins4("return", None, 0, rv)

Ops == {"alloc", "mem", "acquire", "ifnull", "call", "branch", "set", "free",
        "free0", "close", "deref", "give", "adopt", "goto", "return"}

Res == UNION {{p[i].r : i \in DOMAIN p} : p \in Progs} \ {None}

(* The bound on references the model keeps count of. *)
MaxRef == 2

Faults == {"double_free", "use_after_free", "null_deref"}

VARIABLES
    prog,    \* the function being run
    pc,      \* the next instruction; 0 once the function has returned
    cnt,     \* references held on each object
    ptr,     \* the object's pointer variable is not NULL
    given,   \* objects handed to the caller or kept in a global
    ret,     \* the function's result variable
    failed,  \* an error branch was taken
    faults   \* memory errors committed

vars == <<prog, pc, cnt, ptr, given, ret, failed, faults>>

TypeOK ==
    /\ prog \in Progs
    /\ pc \in 0..Len(prog)
    /\ cnt \in [Res -> 0..MaxRef]
    /\ ptr \in [Res -> BOOLEAN]
    /\ given \subseteq Res
    /\ ret \in Int
    /\ failed \in BOOLEAN
    /\ faults \subseteq Faults

Init ==
    /\ prog \in Progs
    /\ pc = 1
    /\ cnt = [r \in Res |-> 0]
    /\ ptr = [r \in Res |-> FALSE]
    /\ given = {}
    /\ ret = 0
    /\ failed = FALSE
    /\ faults = {}

Ins == prog[pc]

Assign(rv) == IF rv = {} THEN ret ELSE CHOOSE v \in rv : TRUE

(* The error branch of an allocation or a call. *)
Fail ==
    /\ Ins.alt # 0
    /\ pc' = Ins.alt
    /\ ret' = Assign(Ins.ret)
    /\ failed' = TRUE

(* A live object whose pointer is still set is used after its last      *)
(* reference was dropped.                                                *)
Dangling(r) == ptr[r] /\ cnt[r] = 0 /\ r \notin given

-----------------------------------------------------------------------------
NewRef(r) ==
    /\ cnt[r] < MaxRef
    /\ cnt' = [cnt EXCEPT ![r] = @ + 1]
    /\ ptr' = [ptr EXCEPT ![r] = TRUE]

DoAlloc ==
    /\ pc # 0 /\ Ins.op = "alloc"
    /\ \/ NewRef(Ins.r)
       \/ ptr' = [ptr EXCEPT ![Ins.r] = FALSE] /\ cnt' = cnt
    /\ pc' = pc + 1
    /\ UNCHANGED <<given, ret, failed, faults>>

DoMem ==
    /\ pc # 0 /\ Ins.op = "mem"
    /\ NewRef(Ins.r)
    /\ pc' = pc + 1
    /\ UNCHANGED <<given, ret, failed, faults>>

DoAcquire ==
    /\ pc # 0 /\ Ins.op = "acquire"
    /\ \/ NewRef(Ins.r) /\ pc' = pc + 1 /\ UNCHANGED <<ret, failed>>
       \/ Fail /\ UNCHANGED <<cnt, ptr>>
    /\ UNCHANGED <<given, faults>>

DoIfNull ==
    /\ pc # 0 /\ Ins.op = "ifnull"
    /\ IF ptr[Ins.r] THEN pc' = pc + 1 /\ UNCHANGED <<ret, failed>> ELSE Fail
    /\ UNCHANGED <<cnt, ptr, given, faults>>

DoCall ==
    /\ pc # 0 /\ Ins.op = "call"
    /\ faults' = IF Ins.r # None /\ Dangling(Ins.r) THEN faults \cup {"use_after_free"}
                 ELSE faults
    /\ \/ pc' = pc + 1 /\ UNCHANGED <<ret, failed>>
       \/ Fail
    /\ UNCHANGED <<cnt, ptr, given>>

DoBranch ==
    /\ pc # 0 /\ Ins.op = "branch"
    /\ pc' \in {pc + 1, Ins.alt}
    /\ UNCHANGED <<cnt, ptr, given, ret, failed, faults>>

DoSet ==
    /\ pc # 0 /\ Ins.op = "set"
    /\ ret' = Assign(Ins.ret)
    /\ pc' = pc + 1
    /\ UNCHANGED <<cnt, ptr, given, failed, faults>>

(* X_free(p) and mem_free(p): nothing for NULL, else drop a reference.  *)
Release(r) ==
    IF ~ptr[r] THEN UNCHANGED <<cnt, faults>>
    ELSE IF cnt[r] = 0 THEN cnt' = cnt /\ faults' = faults \cup {"double_free"}
    ELSE cnt' = [cnt EXCEPT ![r] = @ - 1] /\ faults' = faults

DoFree ==
    /\ pc # 0 /\ Ins.op = "free"
    /\ Release(Ins.r)
    /\ pc' = pc + 1
    /\ UNCHANGED <<ptr, given, ret, failed>>

(* mem_free0 also sets the pointer to NULL. *)
DoFree0 ==
    /\ pc # 0 /\ Ins.op = "free0"
    /\ Release(Ins.r)
    /\ ptr' = [ptr EXCEPT ![Ins.r] = FALSE]
    /\ pc' = pc + 1
    /\ UNCHANGED <<given, ret, failed>>

(* fclose(NULL) dereferences NULL (glibc crashes); otherwise as free.   *)
DoClose ==
    /\ pc # 0 /\ Ins.op = "close"
    /\ IF ptr[Ins.r] THEN Release(Ins.r)
       ELSE cnt' = cnt /\ faults' = faults \cup {"null_deref"}
    /\ pc' = pc + 1
    /\ UNCHANGED <<ptr, given, ret, failed>>

DoDeref ==
    /\ pc # 0 /\ Ins.op = "deref"
    /\ faults' = faults \cup
                  (IF ~ptr[Ins.r] THEN {"null_deref"}
                   ELSE IF Dangling(Ins.r) THEN {"use_after_free"} ELSE {})
    /\ pc' = pc + 1
    /\ UNCHANGED <<cnt, ptr, given, ret, failed>>

(* *out = p: the caller, or a global, owns the object now. *)
DoGive ==
    /\ pc # 0 /\ Ins.op = "give"
    /\ given' = given \cup {Ins.r}
    /\ pc' = pc + 1
    /\ UNCHANGED <<cnt, ptr, ret, failed, faults>>

(* The object now belongs to another object the function frees later:  *)
(* sk_X509_push(stack, p); p = NULL, or EVP_PKEY_assign_RSA(pkey, p).    *)
DoAdopt ==
    /\ pc # 0 /\ Ins.op = "adopt"
    /\ cnt' = [cnt EXCEPT ![Ins.r] = IF @ > 0 THEN @ - 1 ELSE 0]
    /\ ptr' = [ptr EXCEPT ![Ins.r] = FALSE]
    /\ pc' = pc + 1
    /\ UNCHANGED <<given, ret, failed, faults>>

DoGoto ==
    /\ pc # 0 /\ Ins.op = "goto"
    /\ pc' = Ins.alt
    /\ UNCHANGED <<cnt, ptr, given, ret, failed, faults>>

DoReturn ==
    /\ pc # 0 /\ Ins.op = "return"
    /\ ret' = Assign(Ins.ret)
    /\ pc' = 0
    /\ UNCHANGED <<cnt, ptr, given, failed, faults>>

Next ==
    /\ UNCHANGED prog
    /\ \/ DoAlloc \/ DoMem \/ DoAcquire \/ DoIfNull \/ DoCall \/ DoBranch \/ DoSet
       \/ DoFree \/ DoFree0 \/ DoClose \/ DoDeref \/ DoGive \/ DoAdopt \/ DoGoto \/ DoReturn

Spec == Init /\ [][Next]_vars

-----------------------------------------------------------------------------
(* Properties. *)

Returned == pc = 0

(* No object is freed twice, none is used after its last reference went, *)
(* and no NULL stream is closed, on any path through the function's      *)
(* error handling.                                                       *)
NoMemoryFault == faults = {}

(* When the function returns, it holds no reference on an object it did *)
(* not hand to its caller: the cleanup labels free what every path       *)
(* allocated.                                                            *)
NoLeak == Returned => \A r \in Res : cnt[r] > 0 => r \in given

(* Memory safety of the error handling as a whole (spec section 9,       *)
(* scoped cleanup on every exit path): every path releases each object  *)
(* exactly once, neither twice or too early (NoMemoryFault) nor never     *)
(* (NoLeak).                                                             *)
MemorySafe == NoMemoryFault /\ NoLeak

(* The function reports success (0) only on a path that took no error   *)
(* branch, and hands objects to its caller only when it succeeds.        *)
FailClosed == Returned /\ ret = 0 => ~failed

GivesOnlyOnSuccess == Returned /\ ret # 0 => given = {}
=============================================================================

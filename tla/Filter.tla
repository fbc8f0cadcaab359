------------------------------- MODULE Filter -------------------------------
(***************************************************************************)
(* The seccomp filter: policy.py's filter_sets says what it is to do with   *)
(* which system call, seccomp.py's build_program assembles classic BPF for  *)
(* it, and the kernel runs the program on every system call.  The classes   *)
(* are sequences, as in the code, and may overlap and repeat.               *)
(***************************************************************************)
EXTENDS Naturals, Sequences, FiniteSets, SequencesExt

CONSTANTS
    Numbers,    \* system call numbers
    MaxProgram, \* instructions that the kernel takes (4096)
    MaxClass    \* bound: numbers in one class

ASSUME FilterAssumption == MaxProgram \in Nat /\ MaxClass \in Nat

VARIABLES
    deny, notify, allow, defaultAllow,  \* the arguments of build_program
    prog,   \* the program assembled from them
    call,   \* the system call it runs on
    at, acc,
    fate    \* what the program returned

filterVars == <<deny, notify, allow, defaultAllow, prog, call, at, acc, fate>>

Lists == SeqOf(Numbers, MaxClass)
Calls == [arch : {"x86_64", "i386"}, x32 : BOOLEAN, nr : Numbers]

\* [n for n in s if n not in Gone].
Without(s, Gone) ==
    LET kept[i \in 0..Len(s)] ==
            IF i = 0 THEN <<>> ELSE IF s[i] \in Gone THEN kept[i - 1] ELSE Append(kept[i - 1], s[i])
    IN  kept[Len(s)]

\* Mutant of FilterSets: what is hard-denied stays so in the strict allowlist.
FilterSetsKeepDeny(hard, notes, baseline, allowUnlisted) ==
    [deny |-> hard, notify |-> notes, allow |-> IF allowUnlisted THEN <<>> ELSE baseline]

\* HARD_DENY, NOTIFY and BASELINE_ALLOW under a policy.  In the strict allowlist
\* a number that is hard-denied and also allowed or notified is not denied.
FilterSets(hard, notes, baseline, allowUnlisted) ==
    IF allowUnlisted
      THEN [deny |-> hard, notify |-> notes, allow |-> <<>>]
      ELSE [deny |-> Without(hard, ToSet(baseline) \cup ToSet(notes)),
            notify |-> notes, allow |-> baseline]

\* list(dict.fromkeys(s)): the first of each.
FromKeys(s) ==
    LET keys[i \in 0..Len(s)] ==
            IF i = 0 THEN <<>> ELSE IF s[i] \in ToSet(keys[i - 1]) THEN keys[i - 1] ELSE Append(keys[i - 1], s[i])
    IN  keys[Len(s)]

Load(k)       == [op |-> "ld", k |-> k, jt |-> 0, jf |-> 0]
Jeq(k, t, f)  == [op |-> "jeq", k |-> k, jt |-> t, jf |-> f]
Jset(k, t, f) == [op |-> "jset", k |-> k, jt |-> t, jf |-> f]
Ret(action)   == [op |-> "ret", k |-> action, jt |-> 0, jf |-> 0]

\* Mutant of Pairs: the two offsets exchanged, as in the guard on the ABI.
PairsSwapped(s, action) ==
    [i \in 1..2 * Len(s) |-> IF i % 2 = 1 THEN Jeq(s[(i + 1) \div 2], 1, 0) ELSE Ret(action)]

\* A jump that falls into its return on a match, or skips it.
Pairs(s, action) ==
    [i \in 1..2 * Len(s) |-> IF i % 2 = 1 THEN Jeq(s[(i + 1) \div 2], 0, 1) ELSE Ret(action)]

Program(d, n, a, byDefault) ==
    LET denied == FromKeys(d)
        noted  == Without(FromKeys(n), ToSet(denied))
        listed == Without(FromKeys(a), ToSet(denied) \cup ToSet(noted))
    IN  <<Load("arch"), Jeq("x86_64", 1, 0), Ret("kill"),
          Load("nr"), Jset("x32", 0, 1), Ret("kill")>>
        \o Pairs(denied, "eperm") \o Pairs(noted, "notify") \o Pairs(listed, "allow")
        \o <<Ret(IF byDefault THEN "allow" ELSE "eperm")>>

\* Some lists, a policy, and a call of the payload under the installed filter.  There
\* is none if build_program raises, for a program that is too long.
FilterInit ==
    /\ defaultAllow \in BOOLEAN
    /\ \E hard, notes, baseline \in Lists :
          LET sets == FilterSets(hard, notes, baseline, defaultAllow)
          IN  deny = sets.deny /\ notify = sets.notify /\ allow = sets.allow
    /\ prog = Program(deny, notify, allow, defaultAllow) /\ Len(prog) <= MaxProgram
    /\ call \in Calls
    /\ at = 1 /\ acc = "nothing" /\ fate = "none"

-----------------------------------------------------------------------------
(* The kernel's interpreter.                                                *)

Running(op) == fate = "none" /\ prog[at].op = op

Fetch ==
    /\ Running("ld")
    /\ acc' = prog[at].k /\ at' = at + 1
    /\ UNCHANGED <<deny, notify, allow, defaultAllow, prog, call, fate>>

\* The value in the accumulator against the constant of a comparison.
Matches(k) ==
    IF acc = "arch" THEN call.arch = k ELSE ~call.x32 /\ call.nr = k

Jump ==
    /\ Running("jeq") \/ Running("jset")
    /\ LET i   == prog[at]
           hit == IF i.op = "jset" THEN call.x32 ELSE Matches(i.k)
       IN  at' = at + 1 + (IF hit THEN i.jt ELSE i.jf)
    /\ UNCHANGED <<deny, notify, allow, defaultAllow, prog, call, acc, fate>>

Return ==
    /\ Running("ret")
    /\ fate' = prog[at].k
    /\ UNCHANGED <<deny, notify, allow, defaultAllow, prog, call, at, acc>>

FilterNext == Fetch \/ Jump \/ Return

FilterSpec == FilterInit /\ [][FilterNext]_filterVars

-----------------------------------------------------------------------------
(* Properties.                                                              *)

\* What the classes mean, in the order "deny first, then notify, then allow"
\* (seccomp.py:160-162), for calls of the one ABI that is let in at all.
Meant ==
    IF call.arch # "x86_64" \/ call.x32 THEN "kill"
    ELSE IF call.nr \in ToSet(deny) THEN "eperm"
    ELSE IF call.nr \in ToSet(notify) THEN "notify"
    ELSE IF call.nr \in ToSet(allow) \/ defaultAllow THEN "allow"
    ELSE "eperm"

\* Every variable has its type, and no jump leaves the program, whose offsets are
\* eight bits wide and relative.
FilterTypeOK ==
    /\ deny \in Seq(Numbers) /\ notify \in Seq(Numbers) /\ allow \in Seq(Numbers)
    /\ defaultAllow \in BOOLEAN /\ call \in Calls
    /\ at \in DOMAIN prog
    /\ acc \in {"nothing", "arch", "nr"}
    /\ fate \in {"none", "kill", "eperm", "notify", "allow"}

\* The program decides every call as its class says, whatever the classes share.
DecidesAsMeant == fate # "none" => fate = Meant

\* A notified number of the one ABI reaches the monitor under a strict allowlist,
\* whatever other class it is in: it is neither let through nor refused unseen
\* (policy.py:834-838; otherwise deny comes first, which DecidesAsMeant has).
NotifiedIsSeen ==
    /\ call.nr \in ToSet(notify) /\ ~defaultAllow /\ call.arch = "x86_64" /\ ~call.x32
    /\ fate # "none"
    => fate = "notify"

=============================================================================

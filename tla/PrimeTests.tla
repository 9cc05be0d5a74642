------------------------------- MODULE PrimeTests -------------------------------
(***************************************************************************)
(* bigInt_is_prime (bigInt.c) and the tests of one word behind it           *)
(* (prime_test.c, heap_ptest.c): division by the wheel of thirty, and       *)
(* Miller-Rabin with seven fixed bases.  One step is one divisor, or one    *)
(* base.                                                                    *)
(*                                                                         *)
(* The two tests of one word are dispatched for n = 0 alone, on the lowest  *)
(* limb that a zero happens to keep: a number of one limb is sent to        *)
(* Baillie-PSW, whose comparison with the square of the root refuses every  *)
(* number that is not a square, and whose light checks refuse the squares.  *)
(* A number of two limbs that passes the light checks crashes in the square *)
(* root: see BigIntRoots.                                                   *)
(***************************************************************************)
EXTENDS CallState

CONSTANTS
  TrialDivision,  \* the largest word that is divided: 207936 in the code
  Bases,          \* dmr_bases, in order
  LowLimbs        \* bound: the lowest limbs that are tried

ASSUME PrimeAssumption ==
  TrialDivision \in Nat /\ Bases \in Seq(Nat) /\ LowLimbs \subseteq Nat

IsPrime(x)  == x > 1 /\ \A d \in 2 .. x - 1 : d * d <= x => x % d # 0
Divides(d, x) == x % d = 0

\* (uint64_t)sqrtl(x).
FloorSqrt(x) == CHOOSE r \in 0 .. x : r * r <= x /\ (r + 1) * (r + 1) > x

-----------------------------------------------------------------------------
(* bigInt_is_prime *)

\* Mutant: everything up to five.
SmallPrimesUpTo5(x) == x <= 5
SmallPrimes(x) == x \in {2, 3, 5}

\* _lucas_edge_check: the lowest limbs that go on to the square root.
LightResidues64  == {1, 9, 17, 25, 33, 36, 41, 49, 57}
LightResidues256 ==
  {0, 17, 25, 33, 36, 41, 49, 57, 65, 68, 73, 81, 89, 97, 105, 113, 121, 129, 132, 137, 144,
   145, 153, 161, 164, 169, 177, 185, 193, 196, 201, 209, 217, 225, 228, 233, 241, 249}
LightPass(low) ==
  /\ low % 2 = 1 /\ low % 5 # 0 /\ low % 10 \notin {1, 9} /\ low % 16 \notin {1, 9}
  /\ low % 64 \notin LightResidues64 /\ low % 256 \notin LightResidues256

\* __BIGINT_BPSW__ of one limb: a test that goes beyond the comparison takes a
\* square that the light checks let through.
LucasReached(x) == LightPass(x) /\ FloorSqrt(x) * FloorSqrt(x) = x

PrimeTask(sign, limbs, low) ==
  [op |-> "prime", sign |-> sign, limbs |-> limbs, low |-> low, test |-> "none",
   status |-> "running", verdict |-> FALSE, i |-> 7, at |-> 1]

\* __BIGINT_PTEST_DISP__ for n = 0, on the limb that was left.
OneWordTest(t) ==
  [t EXCEPT !.test = IF t.low <= TrialDivision THEN "trial" ELSE "rabin"]

\* Divisibility by 2 or 5 of the lowest limb of a zero or of a longer number.
LowDivisible(low) == low % 2 = 0 \/ low % 10 \in {0, 5}

End(t, verdict) == [t EXCEPT !.status = "ok", !.verdict = verdict]

CallIsPrime ==
  \E sign \in {1, -1}, limbs \in 0 .. 2, low \in LowLimbs :
    LET t == PrimeTask(sign, limbs, low)
    IN  /\ limbs = 0 => sign = 1
        /\ \/ sign = -1 /\ Enter(End(t, FALSE))
           \/ sign = 1 /\ limbs = 1 /\ Enter(End(t, SmallPrimes(low)))
           \/ sign = 1 /\ limbs # 1 /\ LowDivisible(low) /\ Enter(End(t, TRUE))
           \/ sign = 1 /\ limbs = 0 /\ ~LowDivisible(low) /\ Enter(OneWordTest(t))
           \* the light checks, an array that cannot be had, or the square root
           \/ sign = 1 /\ limbs = 2 /\ ~LowDivisible(low) /\ Enter(End(t, FALSE))
           \/ /\ sign = 1 /\ limbs = 2 /\ LightPass(low)
              /\ \E status \in {"crash", "undefined"} : Enter([t EXCEPT !.status = status])

-----------------------------------------------------------------------------
(* Division by the wheel *)

\* Mutant: the wheel stops below the root.
WheelRangeShort(x) == FloorSqrt(x) - 1
WheelRange(x) == FloorSqrt(x) + 1

\* steps: the index is raised before it is used, so the wheel is a step ahead.
WheelStep(passes) == <<6, 4, 2, 4, 2, 4, 6, 2>>[((passes + 1) % 8) + 1]

TrialPass(t) ==
  CASE t.low <= 1                        -> End(t, FALSE)
    [] t.low \in {2, 3, 5}               -> End(t, TRUE)
    [] t.low > 1 /\ t.low \notin {2, 3, 5} /\ \E d \in {2, 3, 5} : Divides(d, t.low) -> End(t, FALSE)
    [] OTHER -> CASE t.i > WheelRange(t.low)  -> End(t, TRUE)
                  [] t.i <= WheelRange(t.low) /\ Divides(t.i, t.low) -> End(t, FALSE)
                  [] OTHER -> [t EXCEPT !.i = @ + WheelStep(t.at), !.at = @ + 1]

Trial == During("prime") /\ task.test = "trial" /\ task' = TrialPass(task)

-----------------------------------------------------------------------------
(* Miller-Rabin *)

\* __MODMUL_UI64__ of a word with itself.
SquareMod(x, m) == ((x % m) ^ 2) % m

\* __MODEXP_UI64__; an exponent of one returns the base as it is.
ModExp(base, exp, m) ==
  LET p[k \in 0 .. exp] ==
        CASE k = 0             -> 1 % m
          [] k > 0 /\ k % 2 = 0 -> SquareMod(p[k \div 2], m)
          [] k > 0 /\ k % 2 = 1 -> ((base % m) * p[k - 1]) % m
  IN  IF exp = 1 THEN base ELSE p[exp]

\* n - 1 = Odd(n) * 2 ^ Twos(n).
Twos(n) == CHOOSE s \in 0 .. n : (n - 1) % 2 ^ s = 0 /\ ((n - 1) \div 2 ^ s) % 2 = 1
Odd(n)  == (n - 1) \div 2 ^ Twos(n)

\* Mutant: the squarings stop one early.
WitnessesShort(n) == 1 .. Twos(n) - 2
Squarings(n) == 1 .. Twos(n) - 1

\* The base does not show n composite: its power is 1 or -1, or a square is -1.
Passes(base, n) ==
  LET first == ModExp(base, Odd(n), n)
      squared[r \in 0 .. Twos(n)] == IF r = 0 THEN first ELSE SquareMod(squared[r - 1], n)
  IN  first \in {1, n - 1} \/ \E r \in Squarings(n) : squared[r] = n - 1

RabinPass(t) ==
  CASE ~Passes(Bases[t.at], t.low) -> End(t, FALSE)
    [] Passes(Bases[t.at], t.low) /\ t.at = Len(Bases) -> End(t, TRUE)
    [] OTHER -> [t EXCEPT !.at = @ + 1]

Rabin == During("prime") /\ task.test = "rabin" /\ task' = RabinPass(task)

PrimeBegins == CallIsPrime
PrimeSteps  == Trial \/ Rabin

-----------------------------------------------------------------------------
(* What the tests promise *)

PrimeEnded == Ended /\ task.op = "prime" /\ task.status = "ok"

\* The prime residues of thirty that the wheel, a step ahead, never visits.
Skipped == {1, 11, 17, 23, 29}

\* The wheel never takes a prime for a composite; a composite it takes for a
\* prime has only prime factors in the residues the wheel skips
\* (prime_test.c:99-107, heap_ptest.c:44-52).
TrialSound ==
  (PrimeEnded /\ task.test = "trial") =>
    IF task.verdict
      THEN \A p \in 2 .. FloorSqrt(task.low) :
             (IsPrime(p) /\ Divides(p, task.low)) => p % 30 \in Skipped
      ELSE ~IsPrime(task.low)

\* Miller-Rabin decides every word, except the primes that divide one of the
\* bases: the power is then zero and the prime called composite
\* (prime_test.c:108-127; 407521, above the bound of the division, is one).
MillerRabinDecides ==
  (PrimeEnded /\ task.test = "rabin") =>
    (task.verdict <=>
       IsPrime(task.low) /\ \A k \in DOMAIN Bases : ~Divides(task.low, Bases[k]))

\* A number of one limb that is called prime is prime, and the Lucas part of
\* the test, which runs on perfect squares only, is never reached
\* (bigInt.c:2479-2507, ptest_bpsw.c:131-144).
OneLimbSound ==
  (PrimeEnded /\ task.limbs = 1) =>
    (task.verdict => IsPrime(task.low)) /\ ~LucasReached(task.low)

\* The verdicts of the three tests, with the exceptions of each.
PrimesDecided == TrialSound /\ MillerRabinDecides /\ OneLimbSound
=============================================================================

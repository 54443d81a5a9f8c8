----------------------------- MODULE BlindCredit ----------------------------
(***************************************************************************)
(* The blind-signature credits of sip_pic.blind: a client has a serial     *)
(* signed without showing it, and redeems the credit later.  RSA is done   *)
(* in full on a toy modulus; the full-domain hash is a table.              *)
(***************************************************************************)
EXTENDS Integers, Sequences, FiniteSets

CONSTANTS Credits,     \* the credits clients ask for
          Redemptions, \* calls of redeem_blind_credit
          Texts,       \* serials as a credit writes them
          Decode,      \* Decode[t]: the credit whose serial text t stands for
          TextOf,      \* TextOf[c]: the text of the serial call c presents
          Asks,        \* Asks[c]: the price and unit asked of c
          Values,      \* denominations (amount and unit)
          ValueOf,     \* ValueOf[x]: the denomination x is issued for
          Fdh,         \* Fdh[x][d]: hash of x's serial with denomination d
          N, E, D      \* modulus, public and private exponent

Zn == 0..(N - 1)

Divides(k, n) == n % k = 0

Coprime(m, n) == \A k \in 2..n : ~(Divides(k, m) /\ Divides(k, n))

ASSUME BlindAssumption ==
    /\ N \in Nat /\ E \in Nat /\ D \in Nat
    /\ N >= 3 /\ E >= 2
    /\ Decode \in [Texts -> Credits]
    /\ TextOf \in [Redemptions -> Texts]
    /\ Asks \in [Redemptions -> Values]
    /\ ValueOf \in [Credits -> Values]
    /\ Fdh \in [Credits -> [Values -> Zn]]

VARIABLES phase,    \* phase[x]: how far the issuance of x is
          factor,   \* factor[x]: the client's blinding factor
          blinded,  \* blinded[x]: what the issuer is shown
          sig,      \* sig[x]: the signature, blind until finalized
          spent,    \* texts of serials in the spent set
          call,     \* where each redemption is
          raced     \* history: redemptions checked while another of the same
                    \* text was between its own check and its spend

bvars == <<phase, factor, blinded, sig, spent, call, raced>>

BInit ==
    /\ phase = [x \in Credits |-> "new"]
    /\ factor = [x \in Credits |-> 0]
    /\ blinded = [x \in Credits |-> 0]
    /\ sig = [x \in Credits |-> 0]
    /\ spent = {}
    /\ call = [c \in Redemptions |-> "new"]
    /\ raced = {}

-----------------------------------------------------------------------------
\* pow(base, k, N)
Power(base, k) ==
    LET pow[i \in 0..k] == IF i = 0 THEN 1 % N ELSE (base * pow[i - 1]) % N IN pow[k]

\* Mutant: the blinding factor is a constant.
FixedFactor == {2}

\* _random_unit draws from these.
BlindingFactors == {r \in 2..(N - 1) : Coprime(r, N)}

\* pow(r, -1, N)
InverseOf(r) == CHOOSE y \in Zn : (r * y) % N = 1

\* Key generation (external) makes signing and verifying undo each other.
ASSUME RsaAssumption ==
    \A m \in Zn : Power(Power(m, E), D) = m /\ Power(Power(m, D), E) = m

\* _fdh, taken to be ideal: a serial hashes to units of the modulus, and to
\* different ones with different denominations.
ASSUME HashAssumption ==
    \A x \in Credits :
        /\ \A value \in Values : Coprime(Fdh[x][value], N)
        /\ \A v, w \in Values : v # w => Fdh[x][v] # Fdh[x][w]

\* Mutant: the message is multiplied by r, not by r^e.
BlindUnraised(m, r) == (m * r) % N

\* blind: the message times r^e.
Blind(m, r) == (m * Power(r, E)) % N

\* unblind: the blind signature divided by r.
Unblind(s, r) == (s * InverseOf(r)) % N

\* verify_blind_token.
Verifies(x, value) == Power(sig[x], E) = Fdh[x][value]

\* blind_credit_request: draw a blinding factor, show the issuer the product.
RequestCredit(x) ==
    /\ phase[x] = "new"
    /\ \E r \in BlindingFactors :
        /\ factor' = [factor EXCEPT ![x] = r]
        /\ blinded' = [blinded EXCEPT ![x] = Blind(Fdh[x][ValueOf[x]], r)]
    /\ phase' = [phase EXCEPT ![x] = "requested"]
    /\ UNCHANGED <<sig, spent, call, raced>>

\* BlindIssuer.sign_blinded, which rejects a blinded message of 0.
SignBlinded(x) ==
    /\ phase[x] = "requested"
    /\ blinded[x] > 0
    /\ sig' = [sig EXCEPT ![x] = Power(blinded[x], D)]
    /\ phase' = [phase EXCEPT ![x] = "signed"]
    /\ UNCHANGED <<factor, blinded, spent, call, raced>>

\* finalize_blind_credit.
Finalize(x) ==
    /\ phase[x] = "signed"
    /\ sig' = [sig EXCEPT ![x] = Unblind(sig[x], factor[x])]
    /\ phase' = [phase EXCEPT ![x] = "ready"]
    /\ UNCHANGED <<factor, blinded, spent, call, raced>>

\* _b64u_decode skips what is not of the alphabet and the bits a serial does not
\* fill: several texts stand for one serial.
CreditOf == [c \in Redemptions |-> Decode[TextOf[c]]]

\* Mutant: the denomination printed on the credit is believed.
BelievesAmount(c) ==
    /\ Verifies(CreditOf[c], ValueOf[CreditOf[c]])
    /\ TextOf[c] \notin spent

\* Mutant: the serial is not looked up.
SignatureOnly(c) == Verifies(CreditOf[c], Asks[c])

\* The checks of redeem_blind_credit: the issuer is known, the signature covers
\* the denomination asked for, the text of the serial is not spent.
Acceptable(c) ==
    /\ Verifies(CreditOf[c], Asks[c])
    /\ TextOf[c] \notin spent

Check(c) ==
    /\ call[c] = "new"
    /\ phase[CreditOf[c]] = "ready"
    /\ call' = [call EXCEPT ![c] = IF Acceptable(c) THEN "spend" ELSE "refused"]
    /\ raced' = IF \E d \in Redemptions : call[d] = "spend" /\ TextOf[d] = TextOf[c]
                THEN raced \cup {c} ELSE raced
    /\ UNCHANGED <<phase, factor, blinded, sig, spent>>

\* spent_set.spend(spend_key), whose result is not looked at, then ok=True.
SpendSerial(c) ==
    /\ call[c] = "spend"
    /\ spent' = spent \cup {TextOf[c]}
    /\ call' = [call EXCEPT ![c] = "ok"]
    /\ UNCHANGED <<phase, factor, blinded, sig, raced>>

BNext ==
    \/ \E x \in Credits : RequestCredit(x) \/ SignBlinded(x) \/ Finalize(x)
    \/ \E c \in Redemptions : Check(c) \/ SpendSerial(c)

BSpec == BInit /\ [][BNext]_bvars

-----------------------------------------------------------------------------
\* Whatever blinding factor was drawn, the finalized signature is the issuer's
\* on the serial and its denomination, and on no other denomination.
FinalizedVerifies ==
    \A x \in Credits : phase[x] = "ready" =>
        \A value \in Values : Verifies(x, value) <=> value = ValueOf[x]

\* What the issuer saw of any credit fits every credit: for each of them there
\* is a blinding factor that explains it (except r = 1, which is never drawn).
Unlinkable ==
    \A x, y \in Credits : phase[x] # "new" =>
        \/ blinded[x] = Fdh[y][ValueOf[y]]
        \/ \E r \in BlindingFactors : Blind(Fdh[y][ValueOf[y]], r) = blinded[x]

\* A credit is redeemed for what it was issued for.
RedeemedAtFaceValue ==
    \A c \in Redemptions : call[c] = "ok" => Asks[c] = ValueOf[CreditOf[c]]

\* A text of a serial is redeemed a second time only by a call that looked the
\* text up between another call's lookup and its spend.
TextOnce ==
    \A c, d \in Redemptions :
        c # d /\ call[c] = "ok" /\ call[d] = "ok" /\ TextOf[c] = TextOf[d] => raced \cap {c, d} # {}

\* What redeem_blind_credit promises a provider, from the issuer's signature to
\* the spent set: a finalized credit verifies for its own denomination only, and
\* is redeemed for that denomination and, in turn and in one text, once.
RedeemedSoundly == FinalizedVerifies /\ RedeemedAtFaceValue /\ TextOnce

\* "any concurrent or later spend() of the same key returns False": no text of a
\* serial is redeemed twice.  Two redemptions that overlap can both succeed.
EachTextOnce ==
    \A c, d \in Redemptions :
        c # d /\ call[c] = "ok" /\ call[d] = "ok" => TextOf[c] # TextOf[d]

\* "check issuer, signature, amount, double-spend": in turn, no credit is redeemed
\* twice.  One whose serial is written in two ways can be.
EachSerialOnce ==
    \A c, d \in Redemptions :
        /\ c # d /\ call[c] = "ok" /\ call[d] = "ok"
        /\ raced \cap {c, d} = {}
        => CreditOf[c] # CreditOf[d]
=============================================================================

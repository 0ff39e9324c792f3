---------------------------- MODULE LoginMachine ----------------------------
(***************************************************************************)
(* The pure login state machine of interaction/machine.ts: no I/O, no      *)
(* clock.  A state is a record of one shape whatever its name; the fields  *)
(* a state of the code does not carry hold a fixed value.  `amr` is the    *)
(* set of methods used: their order is left out.                           *)
(***************************************************************************)
CONSTANTS
    Accounts,   \* the people D3 Auth knows
    Nobody      \* the empty accountId of an unknown or suspended email

ASSUME NobodyAssumption == Nobody \notin Accounts

FactorKind == {"totp", "passkey", "push"}

AuthMethod == {"pwd", "otp", "hwk", "pop", "recovery"}

StateName == {"awaiting_identifier", "awaiting_password", "awaiting_factor",
              "awaiting_trusted_device", "complete"}

Identity == [accountId     : Accounts \cup {Nobody},
             factors       : SUBSET FactorKind,
             deviceTrusted : BOOLEAN,
             recovering    : BOOLEAN]

NoIdentity == [accountId |-> Nobody, factors |-> {},
               deviceTrusted |-> FALSE, recovering |-> FALSE]

\* "absent" is no row in the flow store: routes.ts mints a `start()` for it.
LoginState == [name        : StateName \cup {"absent"},
               identity    : Identity,
               amr         : SUBSET AuthMethod,
               trustDevice : BOOLEAN]

State(name, identity, amr) ==
    [name |-> name, identity |-> identity, amr |-> amr, trustDevice |-> FALSE]

Absent == State("absent", NoIdentity, {})
start == State("awaiting_identifier", NoIdentity, {})

AMR_FOR_FACTOR == [totp |-> "otp", passkey |-> "hwk", push |-> "pop"]

isComplete(s) == s.name = "complete"

\* A mutant: an account whose only factor is a passkey is not asked for it.
afterCredentialCodesOnly(identity, credentials, factorUsed) ==
    LET amr == credentials \cup (IF identity.recovering THEN {"recovery"} ELSE {})
        name == IF ~factorUsed /\ "totp" \in identity.factors /\ ~identity.deviceTrusted
                  THEN "awaiting_factor"
                ELSE IF factorUsed /\ ~identity.deviceTrusted
                  THEN "awaiting_trusted_device"
                ELSE "complete"
    IN  State(name, identity, amr)

\* A mutant: the trusted-device offer follows any credential, factor or not.
afterCredentialOfferAlways(identity, credentials, factorUsed) ==
    LET amr == credentials \cup (IF identity.recovering THEN {"recovery"} ELSE {})
        name == IF ~factorUsed /\ identity.factors # {} /\ ~identity.deviceTrusted
                  THEN "awaiting_factor"
                ELSE IF ~identity.deviceTrusted
                  THEN "awaiting_trusted_device"
                ELSE "complete"
    IN  State(name, identity, amr)

\* Where to go once a credential has been accepted.
afterCredential(identity, credentials, factorUsed) ==
    LET amr == credentials \cup (IF identity.recovering THEN {"recovery"} ELSE {})
        name == IF ~factorUsed /\ identity.factors # {} /\ ~identity.deviceTrusted
                  THEN "awaiting_factor"
                ELSE IF factorUsed /\ ~identity.deviceTrusted
                  THEN "awaiting_trusted_device"
                ELSE "complete"
    IN  State(name, identity, amr)

-----------------------------------------------------------------------------
\* `advance`, one operator per event, and the one state each event is handled
\* in: anywhere else the code throws InvalidTransitionError.
canIdentify(s) == s.name = "awaiting_identifier"

identified(identity) == State("awaiting_password", identity, {})
passwordVerified(s) == afterCredential(s.identity, {"pwd"}, FALSE)
factorVerified(s, method) ==
    afterCredential(s.identity, s.amr \cup {AMR_FOR_FACTOR[method]}, TRUE)
trustedDeviceAnswered(s, trust) ==
    [s EXCEPT !.name = "complete", !.trustDevice = trust]
passkeyAuthenticated(account) ==
    State("complete", [NoIdentity EXCEPT !.accountId = account], {"hwk"})
=============================================================================

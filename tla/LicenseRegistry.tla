--------------------------- MODULE LicenseRegistry ---------------------------
(***************************************************************************)
(* src/validators/license_registry.py: licences of validators.  Issuing    *)
(* and revoking both wait for a decision of the DAO, which lets other      *)
(* calls in.  Licences expire on paper only: nothing reads expires_at.     *)
(***************************************************************************)
EXTENDS Naturals

CONSTANTS
  Validator,
  License,          \* licence ids there may be
  Application,      \* what is applied with: records [stake, reputation, specs]
  MaxRevocations    \* bound on the revocations that wait at the same time

NoHolder == "nobody"

ASSUME LicenseAssumption == NoHolder \notin Validator /\ MaxRevocations \in Nat

VARIABLES
  applied,            \* licences submitted to the DAO: holder, or NoHolder
  licenses,           \* status of each licence
  active_validators,
  revoking            \* revocations of each licence that wait for the DAO

licVars == <<applied, licenses, active_validators, revoking>>

\* Stakes in thousands of JOY, reputation in hundreds; specs are the platform, and the
\* memory, the storage and the cores in multiples of what is required, or lack a key.
MIN_STAKE == 10
MIN_REPUTATION == 5
VerifyHardware(specs) ==
  /\ specs.complete /\ specs.platform = "Jetson AGX Orin"
  /\ specs.ram >= 1 /\ specs.storage >= 1 /\ specs.cores >= 1

Qualifies(a) == a.stake >= MIN_STAKE /\ a.reputation >= MIN_REPUTATION /\ VerifyHardware(a.specs)

LicTypeOK ==
  /\ applied \in [License -> Validator \cup {NoHolder}]
  /\ licenses \in [License -> {"none", "active", "revoked"}]
  /\ active_validators \subseteq Validator
  /\ revoking \in [License -> 0 .. MaxRevocations]

LicInit ==
  /\ applied = [l \in License |-> NoHolder]
  /\ licenses = [l \in License |-> "none"]
  /\ active_validators = {}
  /\ revoking = [l \in License |-> 0]

-----------------------------------------------------------------------------
IssueLicense(v, l, a) ==
  /\ applied[l] = NoHolder
  /\ Qualifies(a)
  /\ applied' = [applied EXCEPT ![l] = v]
  /\ UNCHANGED <<licenses, active_validators, revoking>>

\* The decision is not awaited yet and always positive; a create_proposal that
\* raises leaves the licence without effect for ever.
LicenseApproved(l) ==
  /\ applied[l] # NoHolder
  /\ licenses[l] = "none"
  /\ licenses' = [licenses EXCEPT ![l] = "active"]
  /\ active_validators' = active_validators \cup {applied[l]}
  /\ UNCHANGED <<applied, revoking>>

\* A licence that is revoked can be revoked again.
RevokeLicense(l) ==
  /\ licenses[l] # "none"
  /\ revoking[l] < MaxRevocations
  /\ revoking' = [revoking EXCEPT ![l] = @ + 1]
  /\ UNCHANGED <<applied, licenses, active_validators>>

\* Mutant of RevocationDecided: a licence that is revoked already is left alone
\* by halves.
RevocationDecided_KeepsActive(l) ==
  /\ revoking[l] > 0
  /\ revoking' = [revoking EXCEPT ![l] = @ - 1]
  /\ licenses' = [licenses EXCEPT ![l] = "revoked"]
  /\ active_validators' = IF revoking[l] = 1 THEN active_validators \ {applied[l]}
                          ELSE active_validators
  /\ UNCHANGED applied

\* The holder leaves the active validators, even when another licence of his is
\* active; when he is not among them, remove raises and the caller learns of an
\* error though the licence is revoked.
RevocationDecided(l) ==
  /\ revoking[l] > 0
  /\ revoking' = [revoking EXCEPT ![l] = @ - 1]
  /\ licenses' = [licenses EXCEPT ![l] = "revoked"]
  /\ active_validators' = active_validators \ {applied[l]}
  /\ UNCHANGED applied

RevocationFails(l) ==
  /\ revoking[l] > 0
  /\ revoking' = [revoking EXCEPT ![l] = @ - 1]
  /\ UNCHANGED <<applied, licenses, active_validators>>

LicNext ==
  \E l \in License :
    \/ \E v \in Validator, a \in Application : IssueLicense(v, l, a)
    \/ LicenseApproved(l)
    \/ RevokeLicense(l)
    \/ RevocationDecided(l)
    \/ RevocationFails(l)

IsValidValidator(v) == v \in active_validators

-----------------------------------------------------------------------------
(* Properties.                                                             *)

\* Whoever counts as a validator holds a licence that is not revoked, however
\* many licences of his are issued and revoked at the same time.
ValidatorsHoldLicence ==
  \A v \in Validator : IsValidValidator(v) =>
    \E l \in License : applied[l] = v /\ licenses[l] = "active"
=============================================================================

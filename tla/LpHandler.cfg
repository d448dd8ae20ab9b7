SPECIFICATION ProgramSpec
CONSTANTS
  k1 = k1
  k2 = k2
  Disc = Disc
  NoAdmin = NoAdmin
  Keys <- MCKeys
  MAX_ALLOWED_POOLS = 3
  MAX_FEE_OWNERS = 1
  RentMin = 1
  MaxLamports = 3
  Lists <- MCLists
  Users <- MCUsers
  Signer = "sam"
  Calls <- MCCalls
  Permissions <- MCPermissions
INVARIANTS
  ProgramTypeOK
  ServedAsListed
  RefusedForCause
  BlockedByDonations
  CommittedAccountsClean
PROPERTIES
  ImplementsGate

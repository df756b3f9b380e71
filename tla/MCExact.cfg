\* Two requests at a facilitator of one chain or another, every mishap.  The
\* requests are bounded, so the system stops.
SPECIFICATION ExactSpec
CONSTANTS
  Requests = {r1, r2}
  MaxTime = 2
  MaxPayments = 1
  Funds = 2
  Offers <- MCOffers
  Wallets <- MCWallets
  Form <- MCForm
  Speaks <- MCSpeaks
  Here = "base"
  Networks = {"base", "other", "solana"}
  Leads <- MCLeads
  Margin = 1
  Backdate = 1
  Faults = {"rpc", "timeout", "spend", "deploy", "forge", "swap"}
  SolanaOffers <- MCSolanaOffers
  SolanaHere = "solana"
  FeePayer = "facilitator"
  Payer = "client"
  Opened = {"shop"}
  Settings <- MCSettings
  Drafts <- MCDrafts
  MaxUnits = 1
  MaxPrice = 1
  Lifetime = 0
  SolanaMaxTime = 1
  SolanaFaults = {"rpc", "spend", "swap"}
  AptosOffers <- MCAptosOffers
  AptosPayments <- MCAptosPayments
  AptosHere = "aptos:1"
INVARIANTS
  SuccessMeansPaid
  OneSuccessPerPayment
  BadRequestSentNothing
  VerifyAgreesWithSettle
  HonestPaymentTaken
  SponsorProtected
PROPERTIES
  RevertsOnlyIfUnpayable
  RequestsAnswered
CHECK_DEADLOCK FALSE

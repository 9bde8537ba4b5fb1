\* One intent under either of two ids; two failing calls and a crash; three log entries of others.
\* The system may stop: the engine with everything recorded waits for its venue.
SPECIFICATION FairSpec
CONSTANTS
  None = None
  OrderIds <- MCOrderIds
  ClientOf <- MCClientOf
  OrderStates <- MCOrderStates
  FillIds <- MCFillIds
  Execs <- MCExecs
  Calls <- MCCalls
  OtherCalls <- MCOtherCalls
  Submitted <- MCSubmitted
  QtyOf <- MCQtyOf
  Executions <- MCExecutions
  MaxCrashes = 2
  MaxErrors = 2
  MaxLog = 3
INVARIANTS TypeOK KeysHold EngineIsNeverRefused MemoryIsTheLedgers ExecutionsCountOnce
PROPERTIES ImplementsAtomic ExecutionsAreRecorded
CHECK_DEADLOCK FALSE

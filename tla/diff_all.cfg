SPECIFICATION MCSpec
CHECK_DEADLOCK FALSE
CONSTANTS
  None = None
  Poller = {1}
  Merge = {"UNKNOWN", "CLEAN", "DIRTY", "BLOCKED"}
  Decision = {"APPROVED", "CHANGES_REQUESTED"}
  Login = {"ann"}
  Review = {1}
  MaxComment = 5
  MaxEdit = 2
  Window = 2
  Threads = 1
  PerThread = 1
  Thread <- MCThread
  Name = {"shard1", "shard2", "shard3", "required", "lint"}
  Dropped = {"shard3"}
  Gate = {"required"}
  Status = {"lint"}
  Result = {"SUCCESS", "FAILURE", "CANCELLED", "SKIPPED"}
  Changing = {"head", "draft", "end"}
  MaxChanges = 6
  Workflow <- MCWorkflow
  Job <- MCJob
INVARIANT NewsIsTold
INVARIANT FailedRunIsTold
INVARIANT ChecksAndCommentsAreNew
PROPERTY ConflictNeedsEvidence

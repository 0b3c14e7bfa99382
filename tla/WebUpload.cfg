SPECIFICATION Spec
CONSTANTS
  None = None
  Failures = FALSE
  Workers = {w1}
  Requests <- UploadRequests
  Buffer = 2
PROPERTY
  WholeRequestsAreHandled

\* Scm_DeleteCleanupHandler must return, whatever handle it is given.
CONSTANTS
    MaxAdds = 2
    NotAHandle = NotAHandle
SPECIFICATION Spec
PROPERTY DeleteReturns

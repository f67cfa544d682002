\* Every handler that holds the mutex over a call, mixed.
CONSTANTS
    g1 = g1
    g2 = g2
    Goroutine = {g1, g2}
    Handler = {"PayRent", "UpdateProperty", "DeleteRegion", "ListKYCQueues", "DebugDB",
               "DebugListInvitations",
               "ListingReviewWorker", "ListDisputes", "GetDashboardStats", "ListStaff",
               "VerifyToken", "UpdateListing", "PublishProperty", "UnpublishProperty",
               "SuspendUser", "VerifyKYC", "ListApplications", "Me", "SubmitReview",
               "RespondToReview"}
    Paths <- HandlerPaths
    Nobody = Nobody
SPECIFICATION Spec
SYMMETRY Symmetry
\* The self-deadlocks and the misuse of the mutex do stop the program.
CHECK_DEADLOCK FALSE
INVARIANTS
    WedgeNeedsReentry
    LockRulesKept

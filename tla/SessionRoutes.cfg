\* Any three calls of one account.
CONSTANTS
    Requests = {q1, q2, q3}
    Kinds = {"signUp", "login", "refreshToken", "forgetPassword", "resetPassword", "changePassword"}
    Seed = Seed
    None = None
SYMMETRY MCSymmetry
SPECIFICATION Spec
CHECK_DEADLOCK FALSE
INVARIANTS TypeOK SignUpOnce PasswordChangeRevokes

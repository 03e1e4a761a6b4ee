\* Any four calls that log in, rotate the token or reset the password.
CONSTANTS
    Requests = {q1, q2, q3, q4}
    Kinds = {"login", "refreshToken", "forgetPassword", "resetPassword"}
    Seed = Seed
    None = None
SYMMETRY MCSymmetry
SPECIFICATION Spec
CHECK_DEADLOCK FALSE
INVARIANTS SupersededIsRefused LastAnswerHolds

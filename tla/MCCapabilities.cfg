SPECIFICATION Spec
CONSTANTS
    Words = {"image", "IMAGE", "png"}
    Lower <- MCLower
    Ids = {1, 2, 3}
    Submitted <- MCSubmitted
    NameRank <- MCNameRank
    Filters <- MCFilters
    None = None
    BadRequest = BadRequest
    MaxLen = 5
    Texts <- MCTexts
INVARIANTS Deterministic AnswerIsRight ClientPicksFewer
           CanonicalForm

\* One case with two referrals seen by four roles and changed once unseen; two
\* notifications on two pages with two requests in flight; three questions.
SPECIFICATION MCSpec
CONSTANTS
    n1 = n1
    n2 = n2
    Viewers <- Everybody
    MaxUnseen = 1
    MaxQuestions = 3
INVARIANTS OfferedIsServed AnswersOwnQuestion
PROPERTY FeedSettles
\* The chat stops when the questions are used up.
CHECK_DEADLOCK FALSE

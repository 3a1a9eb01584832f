SPECIFICATION Spec
CONSTANTS
    User = {author, admin}
    Administrator = {admin}
    Template = {t1}
    Engagement = {e1}
    short = short
    long = long
    empty = empty
    Submission = {short, long, empty}
    ItemsOf <- MCItemsOf
    Request = {q1, q2}
    None = None
INVARIANT PublishedHasAnItem

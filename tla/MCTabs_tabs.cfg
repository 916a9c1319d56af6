\* A user with and one without keys; four chats are opened, closed and chosen.
CONSTANTS
  Node = {m, n, o}
  Public = Public
  None = None
  MaxTab = 5
SPECIFICATION Spec
SYMMETRY NodeSymmetry
INVARIANTS
  TypeOK
  MessagesGoToTheShownChat
  OneChatIsShown
PROPERTIES
  OpeningShowsATab

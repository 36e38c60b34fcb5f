SPECIFICATION Spec
CONSTANTS
  Values <- MCValues
  Default <- MCDefault
  Number <- MCNumber
  Hundredths <- MCHundredths
  Minutes <- MCMinutes
  Path <- MCPath
  Urls <- MCUrls
  PublicHosts = {"8.8.8.8"}
  Repo <- MCRepo
  Home <- MCHome
  Files <- MCFiles
  Subdirs <- MCSubdirs
  Environments <- MCEnvironments
  Files0 <- MCFiles0
  Example <- MCExample
  Edits <- MCEdits
  Chosen = {"./notes", "/srv/a"}
  Byte <- MCByte
  White <- MCWhite
  Texts <- MCTexts
  Limits = {"", "2"}
  Digits <- MCDigits
  Addresses <- MCAddresses
  Bare <- MCBare
  Tilde <- MCTilde
  MaxLines = 3
INVARIANTS
  TypeOK
  ChunksHoldTheText
PROPERTIES
  DoctorIsEnough
  MountsWereMade
  ResetSparesSources

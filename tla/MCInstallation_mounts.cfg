SPECIFICATION Spec
CONSTANTS
  Values <- MCValues
  Default <- MCDefault
  Number <- MCNumber
  Hundredths <- MCHundredths
  Minutes <- MCMinutes
  Path <- MCPath
  Urls <- MCUrls
  PublicHosts = {"8.8.8.8"}
  Repo <- MCRepo
  Home <- MCHome
  Files <- MCFiles
  Subdirs <- MCSubdirs
  Environments <- BlanksOnly
  Files0 <- FilesNotes
  Example <- MCExample
  Edits <- MCEdits
  Chosen = {"./notes", "/srv/a"}
  Byte <- MCByte
  White <- MCWhite
  Texts <- MCTexts
  Limits = {"", "2"}
  Digits <- MCDigits
  Addresses <- MCAddresses
  Bare <- MCBare
  Tilde <- MCTilde
  MaxLines = 3
PROPERTY
  MountsAreResolved

SPECIFICATION Spec
CONSTANTS
  Chars <- MCChars
  Files <- MCFiles
  NoFile = NoFile
  Render <- MCRender
  Atoi <- MCAtoi
  Meaning <- MCMeaning
  Plain <- MCPlain
INVARIANTS TypeOK ServesAsWritten ListensReady AllGivenBack
PROPERTIES StartsOrEnds
CHECK_DEADLOCK FALSE

SPECIFICATION FairSpec
CONSTANTS
  None = None
  Uses <- Live
PROPERTIES StaFollowingStarts
